---- MODULE Spec2Model ----
(***************************************************************************)
(* Resumable extraction loop of the LinkedIn alumni scraper.               *)
(*                                                                         *)
(* The repository holds two implementations of the loop:                   *)
(*   "core"   : core/scraper.py (LinkedInScraper) with core/session.py and *)
(*              core/driver.py;                                            *)
(*   "legacy" : main.py (module-level functions and globals).              *)
(* Both are modelled; the variable impl says which one a behaviour runs.   *)
(***************************************************************************)
EXTENDS Integers, Sequences, FiniteSets, TLC

(***************************************************************************)
(* Bounds of the model.                                                    *)
(***************************************************************************)
MaxTarget  == 3      \* largest max_profiles tried
MaxRuns    == 2      \* runs of run_scraper in one behaviour
MaxFaults  == 1      \* injected environment faults in one behaviour
MaxCkptLen == 2      \* rows of the checkpoint drawn for the pure-function checks
MaxInputLen == 3     \* keys of the input list drawn for the pure-function checks
MaxHandles == 3      \* handles the driver manager creates in one behaviour
MaxApiHandles == 1   \* handles the API process creates
MaxCallers == 2      \* requests to the API service in flight at once
MaxJobs    == 2      \* job threads started in one behaviour
MaxApiProfiles == 6  \* largest max_profiles given to start_scraping
MaxRetries == 2      \* largest max_retries given to safe_driver_operation
MaxCalls   == 3      \* calls of the session's methods begun in one behaviour
MaxSessions == 2     \* sessions created in one behaviour
MaxClock   == 3      \* ticks of the clock in one behaviour
TicksPerSecond == 2  \* ticks of the clock in one second

(***************************************************************************)
(* Program constants.                                                      *)
(***************************************************************************)
FlushEveryKeys == 3  \* (i + 1) % 3 == 0
FlushPending   == 5  \* len(all_data) >= 5
PlaceholderTotal == 10  \* "total_profiles": 10 of get_scraping_status
JoinTimeout    == 10 \* self._scraping_thread.join(timeout=10)
SleepSeconds   == 2  \* time.sleep(2) of _run_scraping_thread

(***************************************************************************)
(* The world: search keys, profile URLs and what a search shows.           *)
(***************************************************************************)
KeyNames == {"A", "B", "C", "A "}
Urls     == {"u1", "u2", "u3", "u4"}

\* str.strip(): "A " is the key A with surrounding whitespace.
Strip(s) == IF s = "A " THEN "A" ELSE s

\* name_element.text.strip() of the listing card of a profile.
ProfileName(u) ==
    CASE u = "u1" -> "A"
      [] u = "u2" -> "B"
      [] u = "u3" -> "C"
      [] OTHER    -> "X"

\* The lists of cards a results page can hold, in page order.
OneEach == [k \in KeyNames |->
              CASE k = "A" -> <<"u1">>
                [] k = "B" -> <<"u2">>
                [] k = "C" -> <<"u3">>
                [] OTHER   -> <<>>]
Overlap == [k \in KeyNames |->
              CASE k = "A" -> <<"u1", "u4">>
                [] k = "B" -> <<"u4", "u2">>
                [] k = "C" -> <<>>
                [] OTHER   -> <<"u1", "u4">>]

\* The input files tried, each with what its searches show.
Scenarios == {[input |-> <<"A", "B", "C">>, world |-> OneEach],
              [input |-> <<"A ", "B">>,     world |-> Overlap],
              [input |-> <<>>,              world |-> OneEach]}

\* An input file in which a key occurs twice.
RepeatedKey == [input |-> <<"A", "B", "A">>, world |-> OneEach]

\* Whether a key occurs twice in the input list.
HasRepeats(inp) == \E j, k \in 1..Len(inp) : j # k /\ inp[j] = inp[k]

Impls == {"core", "legacy"}

Min(a, b) == IF a < b THEN a ELSE b
SetMax(S) == CHOOSE x \in S : \A y \in S : y <= x
SetMin(S) == CHOOSE x \in S : \A y \in S : x <= y
Range(s)  == {s[j] : j \in 1..Len(s)}
UrlsOf(rows) == {rows[j].url : j \in 1..Len(rows)}

\* One row of alumni data: "Linkedin Link", "Name", the extracted fields
\* ("ok" or the per-field error placeholders) and "Scraped At" (the run).
Row(u, n, d, t) == [url |-> u, name |-> n, data |-> d, at |-> t]

NoFile == [exists |-> FALSE, rows |-> <<>>]

(***************************************************************************)
(* Resume point.                                                           *)
(***************************************************************************)
\* CoreResumePoint returning the position of the match itself (the "+ 1"
\* forgotten).
CoreResumePointNoNext(inp, f, readOk) ==
    IF ~f.exists \/ ~readOk \/ f.rows = <<>> THEN 0
    ELSE LET last == f.rows[Len(f.rows)].name
             matching == {j \in 1..Len(inp) : inp[j] = last}
         IN  IF matching # {} THEN SetMax(matching) - 1 ELSE 0

\* LinkedInScraper._get_resume_point: the position after the LAST input
\* row whose Name equals the Name of the last checkpoint row.
CoreResumePoint(inp, f, readOk) ==
    IF ~f.exists THEN 0
    ELSE IF ~readOk THEN 0
    ELSE IF f.rows = <<>> THEN 0
    ELSE LET last == f.rows[Len(f.rows)].name
             matching == {j \in 1..Len(inp) : inp[j] = last}
         IN  IF matching # {} THEN SetMax(matching) ELSE 0

\* main.get_last_scraped_name: None (here "") when nothing can be read.
GetLastScrapedName(f, readOk) ==
    IF f.exists /\ readOk /\ f.rows # <<>>
    THEN f.rows[Len(f.rows)].name
    ELSE ""

\* main.get_resume_point: the position after the FIRST input row whose
\* stripped Name equals the stripped last checkpoint Name.
LegacyResumePoint(inp, f, readOk) ==
    LET last_name == GetLastScrapedName(f, readOk)
        matching  == {j \in 1..Len(inp) : Strip(inp[j]) = Strip(last_name)}
    IN  IF last_name = "" THEN 0
        ELSE IF matching # {} THEN SetMin(matching) ELSE 0

ResumePoint(im, inp, f, readOk) ==
    IF im = "core" THEN CoreResumePoint(inp, f, readOk)
                   ELSE LegacyResumePoint(inp, f, readOk)

(***************************************************************************)
(* Checkpoint store.                                                       *)
(***************************************************************************)
\* LinkedInScraper._save_to_csv: DataFrame.to_csv(mode='a'); an exception
\* is logged and swallowed, the file is left as it was.
CoreSaveToCsv(f, data, writeOk) ==
    IF writeOk THEN [exists |-> TRUE, rows |-> f.rows \o data] ELSE f

\* main.load_existing_data: the rows, or [] when the file is missing or
\* cannot be read.
LoadExistingData(f, readOk) ==
    IF f.exists /\ readOk THEN f.rows ELSE <<>>

\* The merge loop of main.save_to_csv: a row with a matching
\* "Linkedin Link" is overwritten in place, any other row is appended.
RECURSIVE MergeRows(_, _)
MergeRows(existing, data) ==
    IF data = <<>> THEN existing
    ELSE LET new == Head(data)
             hits == {j \in 1..Len(existing) : existing[j].url = new.url}
         IN  IF hits # {}
             THEN MergeRows([existing EXCEPT ![SetMin(hits)] = new], Tail(data))
             ELSE MergeRows(Append(existing, new), Tail(data))

\* main.save_to_csv: load, merge, rewrite the whole file (mode='w').
\* wr = "ok"        the file is rewritten;
\* wr = "noopen"    open() raises, the file is untouched;
\* wr = "truncated" the write raises after open() truncated the file.
LegacySaveToCsv(f, data, readOk, wr) ==
    LET existing == IF f.exists THEN LoadExistingData(f, readOk) ELSE <<>>
    IN  CASE wr = "ok"        -> [exists |-> TRUE, rows |-> MergeRows(existing, data)]
          [] wr = "truncated" -> [exists |-> TRUE, rows |-> <<>>]
          [] OTHER            -> f

(***************************************************************************)
(* Browser session.  A browser is [driver, init, live, n]: the handle the  *)
(* manager holds (0 is None), its initialized flag, the handles whose      *)
(* browser still answers, and the number of handles created so far.        *)
(***************************************************************************)
NoBrowser == [driver |-> 0, init |-> FALSE, live |-> {}, n |-> 0]

\* The outcome of a call: the browser afterwards and whether it raised.
Outcome(b, r) == [b |-> b, raised |-> r]

\* LinkedInDriver._initialize_driver / the creating part of main.start_driver:
\* the handle and the flag are assigned together once the browser exists; a
\* failure raises and leaves both as they were.
\* (InitializeDriverHalf: a failure that leaves a handle assigned, flag unset.)
InitializeDriverHalf(b, ok) ==
    IF ok
    THEN Outcome([driver |-> b.n + 1, init |-> TRUE,
                  live |-> b.live \cup {b.n + 1}, n |-> b.n + 1], FALSE)
    ELSE Outcome([b EXCEPT !.driver = b.n + 1], TRUE)

InitializeDriver(b, ok) ==
    IF ok
    THEN Outcome([driver |-> b.n + 1, init |-> TRUE,
                  live |-> b.live \cup {b.n + 1}, n |-> b.n + 1], FALSE)
    ELSE Outcome(b, TRUE)

\* LinkedInDriver._is_driver_alive: enumerates the windows of the handle.
IsDriverAlive(b) == b.driver # 0 /\ b.init /\ b.driver \in b.live

\* LinkedInDriver._recover_session: quit (errors swallowed), reset, initialize.
RecoverSession(b, ok) ==
    InitializeDriver([b EXCEPT !.driver = 0, !.init = FALSE,
                               !.live = b.live \ {b.driver}], ok)

\* LinkedInDriver.get_driver.
CoreGetDriver(b, ok) ==
    IF b.driver = 0 \/ ~b.init THEN InitializeDriver(b, ok)
    ELSE IF ~IsDriverAlive(b) THEN RecoverSession(b, ok)
    ELSE Outcome(b, FALSE)

\* main.get_driver: a dead handle is dropped without quit(), then start_driver.
LegacyGetDriver(b, ok) ==
    IF b.driver = 0 \/ ~b.init THEN InitializeDriver(b, ok)
    ELSE IF b.driver \in b.live THEN Outcome(b, FALSE)
    ELSE InitializeDriver([b EXCEPT !.driver = 0, !.init = FALSE], ok)

GetDriver(im, b, ok) ==
    IF im = "core" THEN CoreGetDriver(b, ok) ELSE LegacyGetDriver(b, ok)

\* Whether get_driver() has to create a handle (and so can fail).
NeedsInit(b) == b.driver = 0 \/ ~b.init \/ b.driver \notin b.live

(***************************************************************************)
(* State.                                                                  *)
(***************************************************************************)
VARIABLES
    impl,               \* which implementation runs
    input,              \* the "Name" column of the input file
    world,              \* what each search shows
    max_profiles,       \* run_scraper(max_profiles=...)
    resume_scraping,    \* run_scraper(resume_scraping=...)
    probe,              \* arguments of the calls checked in isolation
    file,               \* the checkpoint file
    pc,                 \* position of the job
    run,                \* number of runs started
    faults,             \* environment faults still to inject
    browser,            \* the browser session
    status,             \* ScrapingProgress.status
    successful_names,   \* ScrapingProgress.successful_names / local of run_scraper
    failed_names,       \* ScrapingProgress.failed_names / local of run_scraper
    current_index,      \* ScrapingProgress.current_index
    total_names,        \* ScrapingProgress.total_names
    progress_percentage,\* ScrapingProgress.progress_percentage (a fraction)
    error_message,      \* ScrapingProgress.error_message ("" is None)
    end_time,           \* ScrapingProgress.end_time ("none" is None, else "set")
    scraped_urls,       \* ScrapingProgress.scraped_urls / global scraped_urls
    sresults,           \* ScrapingSession._results
    stop_flag,          \* ScrapingSession._stop_flag / global stop_scraping
    retval,             \* what run_scraper returned
    start_index,        \* resume point of the run
    i,                  \* index of the for loop over keywords
    all_data,           \* pending rows
    profiles_scraped,   \* local profiles_scraped
    alumni_list,        \* rows of the key in progress
    local_driver,       \* the local variable driver of the search
    on_search,          \* the results page is still loaded in the base window
    round,              \* pagination attempts of the key so far
    cidx,               \* position in the for loop over profiles
    new_profile_found,  \* local new_profile_found
    cand_name,          \* local name of the candidate in progress
    extracted,          \* history: URLs given to the Extractor in this run
    ckpt_at_start,      \* history: URLs in the checkpoint when the run started
    rows_at_start,      \* history: number of checkpoint rows when the run started
    stop_ever,          \* history: a stop was requested during this run
    stop_mark,          \* history: where the job was when the stop was requested
    last_extract,       \* history: outcome of the latest Extractor call
    recovered_at,       \* history: where the job was when a handle was last replaced
    driver_error,       \* history: get_driver() raised during the main loop of the run
    nav_error,          \* history: a results page could not be loaded during the run
    processed,          \* history: input positions whose search was started, in any run
                        \* (kept for an input list with a repeated key)
    dpc,                \* position inside a call of the driver manager
    dcall,              \* that call: the operation, its branch, the browser at entry
    dret,               \* what the last call returned (a handle, DrvRaised, or 0: nothing yet)
    dquit,              \* handles on which the call in progress attempted quit()
    dreads,             \* attributes of the handle the last call read to probe it
    scraping_active,    \* APIService._scraping_active
    scraping_thread,    \* APIService._scraping_thread: a thread id, 0 is None
    current_session,    \* APIService._current_session
    threads,            \* the job threads started so far, each [pc, k]
    callers,            \* the requests in flight, each [op, pc]
    last_status,        \* the data of the last reply of get_scraping_status()
    ctl,                \* what requests did to the handle while a job thread was alive
    sdo,                \* the call of safe_driver_operation in progress
    lock,               \* ScrapingSession._lock: the thread that holds it, "free" if none
    sthreads,           \* the threads that call the session, each [op, pc, tmp, arg]
    calls,              \* history: calls begun, increments made by each kind of call
    sessions,           \* SessionManager._sessions: [reg: id -> session, n: sessions made]
    clock               \* datetime.now(), in ticks

params  == <<impl, input, world, max_profiles, resume_scraping, probe>>
sess    == <<status, successful_names, failed_names, current_index,
             total_names, progress_percentage, error_message, end_time, scraped_urls, sresults,
             stop_flag, retval>>
looploc == <<start_index, i, all_data, profiles_scraped>>
keyloc  == <<alumni_list, local_driver, on_search, round, cidx,
             new_profile_found, cand_name>>
hist    == <<extracted, ckpt_at_start, rows_at_start, stop_ever, stop_mark,
             last_extract, recovered_at, driver_error, nav_error, processed>>
drv     == <<dpc, dcall, dret, dquit, dreads>>
api     == <<scraping_active, scraping_thread, current_session, threads, callers,
             last_status, ctl>>
aux     == <<sdo, lock, sthreads, calls, sessions, clock>>
side    == <<drv, api, aux>>
job     == <<params, file, pc, run, faults, browser, sess, looploc, keyloc, hist>>
vars    == <<job, side>>

PageSize == 1        \* cards one pagination attempt adds to the page

\* Keywords sliced one position too far (keywords[start_index + 1:]).
KeywordsOffByOne == SubSeq(input, start_index + 2, Len(input))

\* keywords = keywords[start_index:]
Keywords == SubSeq(input, start_index + 1, Len(input))
Keyword  == input[start_index + i + 1]
\* The cards on the page after the pagination attempts made so far.
Cards == SubSeq(world[Keyword], 1, Min(round * PageSize, Len(world[Keyword])))

(***************************************************************************)
(* Session progress.  progress_percentage holds (current_index /           *)
(* total_names) * 100 as the fraction num / den; the snapshot rounds it to *)
(* two decimals, given here in hundredths of a percent.                    *)
(***************************************************************************)
ZeroPct == [num |-> 0, den |-> 1]

\* update_progress with the index counted back from the end.
UpdateProgressRemaining(old, index, total) ==
    IF total > 0 THEN [num |-> (total - index) * 100, den |-> total] ELSE old

\* update_progress: the percentage is recomputed only when total_names > 0.
UpdateProgress(old, index, total) ==
    IF total > 0 THEN [num |-> index * 100, den |-> total] ELSE old

\* round(x, 2) truncating instead of rounding.
Round2Floor(q) == (q.num * 100) \div q.den

\* round(x, 2): the nearest hundredth, a tie going to the even one.
Round2(q) ==
    LET n  == q.num * 100
        fl == n \div q.den
        r2 == 2 * (n % q.den)
    IN  IF r2 < q.den THEN fl
        ELSE IF r2 > q.den THEN fl + 1
        ELSE IF fl % 2 = 0 THEN fl ELSE fl + 1

\* get_progress_dict: the fields of the snapshot the properties speak about.
GetProgressDict ==
    [current_index       |-> current_index,
     total_names         |-> total_names,
     successful_names    |-> successful_names,
     failed_names        |-> failed_names,
     progress_percentage |-> Round2(progress_percentage),
     status              |-> status,
     error_message       |-> error_message,
     total_results       |-> Len(sresults)]

NoMark == [pc |-> "none", i |-> 0, buf |-> <<>>]
NoProbe == [readOk |-> TRUE, batch |-> <<>>, file0 |-> NoFile, once |-> NoFile]

(***************************************************************************)
(* Initial state: nothing has run, the checkpoint file does not exist.     *)
(***************************************************************************)
KeyLocInit ==
    /\ alumni_list = <<>>
    /\ local_driver = 0
    /\ on_search = FALSE
    /\ round = 0
    /\ cidx = 0
    /\ new_profile_found = FALSE
    /\ cand_name = ""

\* No call of the driver manager is in progress.
NoCall == [op |-> "none", branch |-> "none", before |-> NoBrowser]
DrvIdle ==
    /\ dpc = "idle"
    /\ dcall = NoCall
    /\ dret = 0
    /\ dquit = {}
    /\ dreads = {}

\* APIService.__init__: no job, no thread, no session; no request in flight.
NoRequest == [op |-> "none", pc |-> "idle"]
NoStatus == [is_running |-> FALSE, message |-> "none", current_index |-> 0,
             total_profiles |-> 0, completion_percentage |-> 0]
ApiIdle ==
    /\ scraping_active = FALSE
    /\ scraping_thread = 0
    /\ current_session = "none"
    /\ threads = <<>>
    /\ callers = [c \in 1..MaxCallers |-> NoRequest]
    /\ last_status = NoStatus
    /\ ctl = {}

\* No call of safe_driver_operation, no call of the session in progress, an
\* empty registry.
SessThreads == {"job", "caller"}

SdoIdle == [pc |-> "idle", attempt |-> 0, max_retries |-> 0, runs |-> 0,
            failed |-> 0, ret |-> "none"]

ThreadIdle == [op |-> "none", pc |-> "idle", tmp |-> 0, arg |-> 0]

NoId == <<"none", 0>>

NoSessions == [reg |-> <<>>, n |-> 0, last |-> [id |-> NoId, given |-> FALSE]]

AuxIdle ==
    /\ sdo = SdoIdle
    /\ lock = "free"
    /\ sthreads = [t \in SessThreads |-> ThreadIdle]
    /\ calls = [begun |-> 0, success |-> 0, failure |-> 0]
    /\ sessions = NoSessions
    /\ clock = 0

SideIdle == DrvIdle /\ ApiIdle /\ AuxIdle

\* The session, the locals and the history before anything ran.
Fresh ==
    /\ run = 0
    /\ browser = NoBrowser
    /\ status = "idle"
    /\ successful_names = 0
    /\ failed_names = 0
    /\ current_index = 0
    /\ total_names = 0
    /\ progress_percentage = ZeroPct
    /\ error_message = ""
    /\ end_time = "none"
    /\ scraped_urls = {}
    /\ sresults = <<>>
    /\ stop_flag = FALSE
    /\ retval = "none"
    /\ start_index = 0
    /\ i = 0
    /\ all_data = <<>>
    /\ profiles_scraped = 0
    /\ KeyLocInit
    /\ extracted = {}
    /\ ckpt_at_start = {}
    /\ rows_at_start = 0
    /\ stop_ever = FALSE
    /\ stop_mark = NoMark
    /\ last_extract = "none"
    /\ recovered_at = "none"
    /\ driver_error = FALSE
    /\ nav_error = FALSE
    /\ processed = {}
    /\ SideIdle

Init ==
    /\ impl \in Impls
    /\ \E sc \in Scenarios : input = sc.input /\ world = sc.world
    /\ max_profiles \in 1..MaxTarget
    /\ resume_scraping \in BOOLEAN
    /\ probe = NoProbe
    /\ file = NoFile
    /\ pc = "idle"
    /\ faults = MaxFaults
    /\ Fresh

\* The locals of a search, as they are before the next search sets them.
KeyLocReset ==
    /\ alumni_list' = <<>>
    /\ local_driver' = 0
    /\ on_search' = FALSE
    /\ round' = 0
    /\ cidx' = 0
    /\ new_profile_found' = FALSE
    /\ cand_name' = ""

\* An outcome that needs an environment fault takes one from the budget.
Spend(n) == faults >= n /\ faults' = faults - n
Cost(ok) == IF ok THEN 0 ELSE 1
\* A browser that died and cannot be started again is one fault, the one
\* that killed it: the failed replacement of a dead handle costs nothing more.
InitCost(b, ok) ==
    IF ok \/ (b.driver # 0 /\ b.init /\ b.driver \notin b.live) THEN 0 ELSE 1

\* History of handle replacement: where the job was when get_driver()
\* replaced the handle.
NoteRecovery(b1, where) ==
    recovered_at' = IF b1.n > browser.n /\ browser.n > 0 THEN where ELSE recovered_at
\* ScrapingSession.complete_session(success, error_message): the fields of
\* the progress it leaves.  "if error_message:" takes an empty message for
\* none.
CompleteSession(success, msg) ==
    [status        |-> IF msg # "" THEN "error"
                       ELSE IF success THEN "completed" ELSE "stopped",
     error_message |-> IF msg # "" THEN msg ELSE error_message,
     end_time      |-> "set"]

\* run_scraper ends the session (core); main.run_scraper has no session.
Complete(success, msg) ==
    IF impl = "core"
    THEN LET p == CompleteSession(success, msg) IN
           /\ status' = p.status
           /\ error_message' = p.error_message
           /\ end_time' = p.end_time
    ELSE UNCHANGED <<status, error_message, end_time>>

\* ScrapingSession.stop_session: the status moves from running to stopping
\* and from nowhere else.
\* (StopSessionAlways: a stop that sets stopping whatever the status is.)
StopSessionAlways(st) == "stopping"

StopSession(st) == IF st = "running" THEN "stopping" ELSE st

\* "if not self.driver_manager.navigate_to(search_url): return []": the
\* search of the key is over and the loop of the run gets its empty list.
\* (OnLoadFailureEndsRun: a failure to load the page that ends the loop.)
OnLoadFailureEndsRun == "final"

OnLoadFailure == "key_done"

NoteDriverError(o) ==
    /\ driver_error' = (driver_error \/ o.raised)
    /\ UNCHANGED <<nav_error, processed>>

(***************************************************************************)
(* run_scraper, up to the main loop.                                       *)
(***************************************************************************)
\* Entry of run_scraper: session_manager.create_session() (core) or
\* reset_scraping_flag() (legacy).
StartRun ==
    /\ pc \in {"idle", "done"}
    /\ run < MaxRuns
    /\ run' = run + 1
    /\ pc' = "auth"
    /\ status' = "idle"
    /\ successful_names' = 0
    /\ failed_names' = 0
    /\ current_index' = 0
    /\ total_names' = 0
    /\ progress_percentage' = ZeroPct
    /\ error_message' = ""
    /\ end_time' = "none"
    /\ scraped_urls' = IF impl = "core" THEN {} ELSE scraped_urls
    /\ sresults' = <<>>
    /\ stop_flag' = FALSE
    /\ retval' = "none"
    /\ start_index' = 0
    /\ i' = 0
    /\ all_data' = <<>>
    /\ profiles_scraped' = 0
    /\ KeyLocReset
    /\ extracted' = {}
    /\ ckpt_at_start' = UrlsOf(file.rows)
    /\ rows_at_start' = Len(file.rows)
    /\ stop_ever' = FALSE
    /\ stop_mark' = NoMark
    /\ last_extract' = "none"
    /\ recovered_at' = "none"
    /\ driver_error' = FALSE
    /\ nav_error' = FALSE
    /\ processed' = processed
    /\ UNCHANGED <<params, side, file, faults, browser>>

\* Step 1: ensure_logged_in().  It needs a browser; a failure ends the run
\* (core: complete_session(False, "Authentication failed")).
Authenticate ==
    /\ pc = "auth"
    /\ \E authOk \in BOOLEAN :
         LET o == GetDriver(impl, browser, authOk)
         IN  /\ Spend(Cost(authOk))
             /\ IF authOk
                THEN /\ browser' = o.b
                     /\ pc' = "setup"
                     /\ UNCHANGED <<status, error_message, end_time, retval>>
                ELSE /\ browser' = browser
                     /\ pc' = "done"
                     /\ Complete(FALSE, "Authentication failed")
                     /\ retval' = "false"
    /\ UNCHANGED <<params, side, file, run, successful_names, failed_names, current_index, total_names,
                   progress_percentage,
                   scraped_urls, sresults, stop_flag, looploc, keyloc, hist>>

\* Steps 3 and 4 and the head of the loop function: count the names,
\* start_session() (core), compute the resume point, load the existing
\* rows (legacy), read the keywords.
\*   cnt: the input file can be read for the count (a failure counts 0);
\*   r1:  the checkpoint can be read for the resume point;
\*   r2:  load_existing_data can read it (legacy);
\*   kw:  pd.read_csv(input_file) for the keywords succeeds.
\* A count of 0 ends the run (core: complete_session(False, "No names found
\* in input file")).  A failure of the keywords read leaves the loop
\* function of core with False (complete_session(success=False)) and
\* leaves run_scraper of legacy as an exception.
Setup ==
    /\ pc = "setup"
    /\ \E cnt, r1, r2, kw \in BOOLEAN :
         LET existing == LoadExistingData(file, r2)
             total    == IF cnt THEN Len(input) ELSE 0
         IN  IF total = 0
             THEN /\ r1 /\ r2 /\ kw
                  /\ Spend(Cost(cnt))
                  /\ pc' = "done"
                  /\ Complete(FALSE, "No names found in input file")
                  /\ retval' = "false"
                  /\ UNCHANGED <<start_index, scraped_urls, profiles_scraped,
                                 rows_at_start, stop_flag, total_names>>
             ELSE /\ r1 \/ (file.exists /\ resume_scraping)
                  /\ r2 \/ (file.exists /\ impl = "legacy")
                  /\ Spend(Cost(r1) + Cost(r2) + Cost(kw))
                  /\ start_index' = IF resume_scraping
                                    THEN ResumePoint(impl, input, file, r1) ELSE 0
                  /\ scraped_urls' = IF impl = "core" THEN scraped_urls
                                                      ELSE UrlsOf(existing)
                  /\ profiles_scraped' = IF impl = "core" THEN 0 ELSE Len(existing)
                  /\ rows_at_start' = IF impl = "core" THEN rows_at_start
                                                       ELSE Len(existing)
                  /\ stop_flag' = IF impl = "core" THEN FALSE ELSE stop_flag
                  /\ total_names' = IF impl = "core" THEN total ELSE total_names
                  /\ IF kw
                     THEN /\ pc' = "loop_head"
                          /\ status' = IF impl = "core" THEN "running" ELSE status
                          /\ UNCHANGED <<error_message, end_time>>
                          /\ retval' = retval
                     ELSE /\ pc' = "done"
                          /\ Complete(FALSE, "")
                          /\ retval' = IF impl = "core" THEN "false" ELSE "raised"
    /\ i' = 0
    /\ all_data' = <<>>
    /\ UNCHANGED <<params, side, file, run, browser, successful_names, failed_names,
                   current_index, progress_percentage, sresults, keyloc,
                   extracted, ckpt_at_start, stop_ever, stop_mark, last_extract,
                   recovered_at, driver_error, nav_error, processed>>

(***************************************************************************)
(* The main loop over the keywords.                                        *)
(***************************************************************************)
\* The target test of the loops: "profiles_scraped >= max_profiles" at the
\* head of the main loop, "profiles_scraped + len(alumni_list) >=
\* max_profiles" before a pagination and before a candidate.
\* (TargetReachedNever: a test that never finds the target reached.)
TargetReachedNever(n, target) == FALSE

TargetReached(n, target) == n >= target

\* Head of "for i, keyword in enumerate(keywords)": the loop ends when the
\* keywords are exhausted, a stop was requested or the target is reached;
\* otherwise update_progress() and the search of the keyword starts.
LoopHead ==
    /\ pc = "loop_head"
    /\ IF i >= Len(Keywords) \/ stop_flag \/ TargetReached(profiles_scraped, max_profiles)
       THEN /\ pc' = "final"
            /\ UNCHANGED <<current_index, progress_percentage>>
       ELSE /\ pc' = "search"
            /\ current_index' = IF impl = "core" THEN start_index + i ELSE current_index
            /\ progress_percentage' =
                 IF impl = "core"
                 THEN UpdateProgress(progress_percentage, start_index + i, total_names)
                 ELSE progress_percentage
    /\ UNCHANGED <<params, side, file, run, faults, browser, status, successful_names,
                   failed_names, total_names, error_message, end_time, scraped_urls, sresults,
                   stop_flag, retval, looploc, keyloc, hist>>

(***************************************************************************)
(* _search_alumni / search_alumni: the search of one keyword.              *)
(***************************************************************************)
\* get_driver() and the navigation to the results page of the keyword.
\*   initOk: a handle that has to be created is created;
\*   navOk:  the results page loads.
\* core: both failures return [].  legacy: get_driver() is outside any try
\* of search_alumni, so its exception reaches the except clause of the loop
\* in run_scraper (failed_names += 1; continue).
SearchStart ==
    /\ pc = "search"
    /\ \E initOk, navOk \in BOOLEAN :
         LET o == GetDriver(impl, browser, initOk)
         IN  /\ initOk \/ NeedsInit(browser)
             /\ navOk \/ initOk
             /\ Spend(InitCost(browser, initOk) + Cost(navOk))
             /\ browser' = o.b
             /\ NoteRecovery(o.b, "key_start")
             /\ driver_error' = (driver_error \/ o.raised)
             /\ nav_error' = (nav_error \/ (~o.raised /\ ~navOk))
             /\ processed' = IF HasRepeats(input)
                             THEN processed \cup {start_index + i + 1}
                             ELSE processed
             /\ IF o.raised /\ impl = "legacy"
                THEN /\ failed_names' = failed_names + 1
                     /\ i' = i + 1
                     /\ pc' = "loop_head"
                     /\ KeyLocReset
                ELSE /\ UNCHANGED <<failed_names, i>>
                     /\ alumni_list' = <<>>
                     /\ round' = 0
                     /\ cidx' = 0
                     /\ new_profile_found' = FALSE
                     /\ cand_name' = ""
                     /\ IF o.raised \/ ~navOk
                        THEN /\ pc' = OnLoadFailure
                             /\ local_driver' = 0
                             /\ on_search' = FALSE
                        ELSE /\ pc' = "scroll"
                             /\ local_driver' = o.b.driver
                             /\ on_search' = TRUE
    /\ UNCHANGED <<params, side, file, run, status, successful_names, current_index, total_names,
                   progress_percentage,
                   error_message, end_time, scraped_urls, sresults, stop_flag, retval,
                   start_index, all_data, profiles_scraped,
                   extracted, ckpt_at_start, rows_at_start, stop_ever, stop_mark,
                   last_extract>>

\* Head of "while profiles_scraped + len(alumni_list) < max_profiles", the
\* stop check, one pagination attempt (scroll_page) and the wait for the
\* profile cards.
\*   initOk: scroll_page's own get_driver() (core) can create a handle;
\*   found:  the wait finds the cards.
\* The wait raises when the handle of the search no longer answers or the
\* page holds no card; it may also raise by an environment fault, and it
\* may go either way once the base window left the results page.
ScrollStep ==
    /\ pc = "scroll"
    /\ IF TargetReached(profiles_scraped + Len(alumni_list), max_profiles) \/ stop_flag
       THEN /\ pc' = "key_done"
            /\ UNCHANGED <<faults, browser, round, cidx, new_profile_found, recovered_at,
                           driver_error, nav_error, processed>>
       ELSE \E initOk, found \in BOOLEAN :
              LET o  == IF impl = "core" THEN CoreGetDriver(browser, initOk)
                                         ELSE Outcome(browser, FALSE)
                  alive == local_driver \in o.b.live
                  shown == SubSeq(world[Keyword], 1,
                                  Min((round + 1) * PageSize, Len(world[Keyword])))
              IN  /\ initOk \/ (impl = "core" /\ NeedsInit(browser))
                  /\ found => (alive /\ shown # <<>>)
                  /\ Spend(InitCost(browser, initOk)
                           + (IF ~found /\ alive /\ shown # <<>> /\ on_search
                              THEN 1 ELSE 0))
                  /\ browser' = o.b
                  /\ NoteRecovery(o.b, "mid_key")
                  /\ NoteDriverError(o)
                  /\ IF found
                     THEN /\ pc' = "cand"
                          /\ round' = round + 1
                          /\ cidx' = 1
                          /\ new_profile_found' = FALSE
                     ELSE /\ pc' = "key_done"
                          /\ UNCHANGED <<round, cidx, new_profile_found>>
    /\ UNCHANGED <<params, side, file, run, sess, looploc, alumni_list, local_driver,
                   on_search, cand_name,
                   extracted, ckpt_at_start, rows_at_start, stop_ever, stop_mark,
                   last_extract>>

\* ScrapingSession.is_url_scraped / "profile_url in scraped_urls".
\* (IsUrlScrapedNever: a test that finds no URL in the dedup set.)
IsUrlScrapedNever(u, done) == FALSE

IsUrlScraped(u, done) == u \in done

\* "if not new_profile_found: break" after the for loop: another pagination
\* is attempted only when the round recorded a candidate.
\* (ContinuePagingNever: the loop is left after every round.)
ContinuePagingNever(found_new) == FALSE

ContinuePaging(found_new) == found_new

\* One iteration head of "for profile in profiles".
\*   look: the listing card can be read ("ok"), its link cannot ("error":
\*         the except clause continues with the next card), or only its
\*         name cannot ("noname": legacy falls back to the keyword).
\* A card of a handle that no longer answers cannot be read; once the base
\* window left the results page a card may or may not be readable.
CandStep ==
    /\ pc = "cand"
    /\ IF cidx > Len(Cards)
       THEN \* the for loop is over
            /\ pc' = IF ContinuePaging(new_profile_found) THEN "scroll" ELSE "key_done"
            /\ UNCHANGED <<faults, cidx, cand_name>>
       ELSE IF stop_flag \/ TargetReached(profiles_scraped + Len(alumni_list), max_profiles)
       THEN \* core: break; legacy: return alumni_list
            /\ pc' = IF impl = "core" /\ new_profile_found THEN "scroll" ELSE "key_done"
            /\ UNCHANGED <<faults, cidx, cand_name>>
       ELSE \E look \in {"ok", "error", "noname"} :
              LET alive == local_driver \in browser.live
                  u     == Cards[cidx]
              IN  /\ look = "ok" => alive
                  /\ look = "noname" => (alive /\ impl = "legacy")
                  /\ Spend(IF look # "ok" /\ alive /\ on_search THEN 1 ELSE 0)
                  /\ IF look = "error" \/ IsUrlScraped(u, scraped_urls)
                     THEN /\ cidx' = cidx + 1
                          /\ pc' = "cand"
                          /\ UNCHANGED cand_name
                     ELSE /\ cidx' = cidx
                          /\ pc' = "extract"
                          /\ cand_name' = IF look = "noname" THEN Keyword
                                                             ELSE ProfileName(u)
    /\ UNCHANGED <<params, side, file, run, browser, sess, looploc, alumni_list,
                   local_driver, on_search, round, new_profile_found, hist>>

\* The row of the candidate in progress and its recording: alumni_list,
\* the dedup set and the result buffer of the session (core).
Record(d) ==
    LET r == Row(Cards[cidx], cand_name, d, run)
    IN  /\ alumni_list' = Append(alumni_list, r)
        /\ scraped_urls' = scraped_urls \cup {r.url}
        /\ sresults' = IF impl = "core" THEN Append(sresults, r) ELSE sresults
        /\ new_profile_found' = TRUE

\* core: extract_profile_data() and the recording of the candidate.  The
\* Extractor takes the handle from get_driver(), loads the profile in the
\* base window and catches every exception, returning the placeholders.
\*   initOk: a handle that has to be created is created;
\*   d:      "ok" or "err" (the placeholders); on a handle that answers
\*           a failure is an environment fault, after a handle was lost
\*           either may happen.
ExtractCore ==
    /\ pc = "extract"
    /\ impl = "core"
    /\ \E initOk \in BOOLEAN, d \in {"ok", "err"} :
         LET o == CoreGetDriver(browser, initOk)
         IN  /\ initOk \/ NeedsInit(browser)
             /\ o.raised => d = "err"
             /\ Spend(InitCost(browser, initOk)
                      + (IF d = "err" /\ IsDriverAlive(browser) THEN 1 ELSE 0))
             /\ browser' = o.b
             /\ NoteRecovery(o.b, "mid_key")
             /\ NoteDriverError(o)
             /\ on_search' = IF o.raised THEN on_search ELSE FALSE
             /\ Record(d)
             /\ last_extract' = d
    /\ extracted' = extracted \cup {Cards[cidx]}
    /\ cidx' = cidx + 1
    /\ pc' = "cand"
    /\ UNCHANGED <<params, side, file, run, status, successful_names, failed_names,
                   current_index, total_names,
                   progress_percentage, error_message, end_time, stop_flag, retval, looploc,
                   local_driver, round, cand_name,
                   ckpt_at_start, rows_at_start, stop_ever, stop_mark>>

\* legacy: window.open(profile_url) on the handle of the search.  When it
\* raises, the fallback data are used, no tab is open and the candidate is
\* recorded at once.
OpenTab ==
    /\ pc = "extract"
    /\ impl = "legacy"
    /\ \E openOk \in BOOLEAN :
         LET alive == local_driver \in browser.live
         IN  /\ openOk => alive
             /\ Spend(IF ~openOk /\ alive THEN 1 ELSE 0)
             /\ IF openOk
                THEN /\ pc' = "detail"
                     /\ UNCHANGED <<alumni_list, scraped_urls, sresults,
                                    new_profile_found, cidx, last_extract>>
                ELSE /\ Record("err")
                     /\ last_extract' = "err"
                     /\ cidx' = cidx + 1
                     /\ pc' = "cand"
    /\ UNCHANGED <<params, side, file, run, browser, status, successful_names,
                   failed_names, current_index, total_names,
                   progress_percentage, error_message, end_time, stop_flag, retval,
                   looploc, local_driver, on_search, round, cand_name,
                   extracted, ckpt_at_start, rows_at_start, stop_ever, stop_mark,
                   recovered_at, driver_error, nav_error, processed>>

\* legacy: extract_profile_data() in the tab, then the finally clause and
\* the recording.  The finally clause reads window_handles of the handle
\* of the search outside any inner try: when that handle no longer
\* answers, the exception reaches the except clause of the candidate
\* (continue) and the candidate is not recorded.
ExtractLegacy ==
    /\ pc = "detail"
    /\ \E initOk \in BOOLEAN, d \in {"ok", "err"} :
         LET o == LegacyGetDriver(browser, initOk)
         IN  /\ initOk \/ NeedsInit(browser)
             /\ o.raised => d = "err"
             /\ Spend(InitCost(browser, initOk)
                      + (IF d = "err" /\ IsDriverAlive(browser) THEN 1 ELSE 0))
             /\ browser' = o.b
             /\ NoteRecovery(o.b, "mid_key")
             /\ NoteDriverError(o)
             /\ last_extract' = d
             /\ IF local_driver \in browser.live
                THEN Record(d)
                ELSE UNCHANGED <<alumni_list, scraped_urls, sresults, new_profile_found>>
    /\ extracted' = extracted \cup {Cards[cidx]}
    /\ cidx' = cidx + 1
    /\ pc' = "cand"
    /\ UNCHANGED <<params, side, file, run, status, successful_names, failed_names,
                   current_index, total_names,
                   progress_percentage, error_message, end_time, stop_flag, retval, looploc,
                   local_driver, on_search, round, cand_name,
                   ckpt_at_start, rows_at_start, stop_ever, stop_mark>>

(***************************************************************************)
(* The rest of one iteration of the main loop.                             *)
(***************************************************************************)
\* "if alumni: add_successful_name(...)": what a key adds to
\* successful_names.
\* (SuccessIncAlways: every key is counted as a success.)
SuccessIncAlways(found) == 1

SuccessInc(found) == IF found THEN 1 ELSE 0

\* add_failed_name without the count.
FailedIncNever(found) == 0

\* "if alumni: add_successful_name(...) else: add_failed_name(...)": what a
\* key adds to failed_names.
FailedInc(found) == IF found THEN 0 ELSE 1

\* (i + 1) % 3 == 0 or len(all_data) >= 5
FlushDue(k, pending) == (k + 1) % FlushEveryKeys = 0 \/ Len(pending) >= FlushPending

\* After the search returned: count the key, extend the pending rows, save
\* them when due.
\*   readOk, wr: outcome of the save (core: wr is "ok" or "noopen").
\* core: _save_to_csv swallows a failure and the pending rows are cleared
\* all the same.  legacy: save_to_csv raises into the except clause of the
\* loop (failed_names += 1; continue) and the pending rows are kept.
KeyDone ==
    /\ pc = "key_done"
    /\ LET found   == alumni_list # <<>>
           pending == all_data \o alumni_list
           due     == FlushDue(i, pending) /\ pending # <<>>
       IN  /\ profiles_scraped' = profiles_scraped + Len(alumni_list)
           /\ successful_names' = successful_names + SuccessInc(found)
           /\ \E readOk \in BOOLEAN, wr \in {"ok", "noopen", "truncated"} :
                /\ ~due => (readOk /\ wr = "ok")
                /\ readOk \/ (impl = "legacy" /\ file.exists)
                /\ wr = "truncated" => impl = "legacy"
                /\ Spend(Cost(readOk) + Cost(wr = "ok"))
                /\ file' = IF ~due THEN file
                           ELSE IF impl = "core" THEN CoreSaveToCsv(file, pending, wr = "ok")
                           ELSE LegacySaveToCsv(file, pending, readOk, wr)
                /\ all_data' = IF ~due THEN pending
                               ELSE IF impl = "core" \/ wr = "ok" THEN <<>>
                               ELSE pending
                /\ failed_names' = failed_names + FailedInc(found)
                                     + (IF due /\ impl = "legacy" /\ wr # "ok" THEN 1 ELSE 0)
    /\ i' = i + 1
    /\ pc' = "loop_head"
    /\ KeyLocReset
    /\ UNCHANGED <<params, side, run, browser, status, current_index, total_names,
                   progress_percentage, error_message, end_time,
                   scraped_urls, sresults, stop_flag, retval, start_index, hist>>

\* After the loop: save the remaining rows and finish.  core:
\* _execute_scraping_loop returns True and run_scraper calls
\* complete_session(success=True).  legacy: an exception of save_to_csv
\* leaves run_scraper.
Finalize ==
    /\ pc = "final"
    /\ \E readOk \in BOOLEAN, wr \in {"ok", "noopen", "truncated"} :
         LET due == all_data # <<>>
         IN  /\ ~due => (readOk /\ wr = "ok")
             /\ readOk \/ (impl = "legacy" /\ file.exists)
             /\ wr = "truncated" => impl = "legacy"
             /\ Spend(Cost(readOk) + Cost(wr = "ok"))
             /\ file' = IF ~due THEN file
                        ELSE IF impl = "core" THEN CoreSaveToCsv(file, all_data, wr = "ok")
                        ELSE LegacySaveToCsv(file, all_data, readOk, wr)
             /\ retval' = IF impl = "legacy" /\ wr # "ok" THEN "raised" ELSE "true"
    /\ Complete(TRUE, "")
    /\ pc' = "done"
    /\ UNCHANGED <<params, side, run, browser, successful_names, failed_names,
                   current_index, total_names,
                   progress_percentage, scraped_urls, sresults, stop_flag,
                   looploc, keyloc, hist>>

(***************************************************************************)
(* The environment of the job.                                             *)
(***************************************************************************)
\* ScrapingSession.stop_session (core) / stop_scraping_process (legacy),
\* called from the controlling thread.
RequestStop ==
    /\ pc # "idle"
    /\ ~stop_flag
    /\ stop_flag' = TRUE
    /\ status' = IF impl = "core" THEN StopSession(status) ELSE status
    /\ stop_ever' = TRUE
    /\ stop_mark' = IF pc = "loop_head"
                     THEN [pc |-> pc, i |-> i, buf |-> sresults]
                     ELSE [pc |-> "busy", i |-> 0, buf |-> <<>>]
    /\ UNCHANGED <<params, side, file, pc, run, faults, browser, successful_names,
                   failed_names, current_index, total_names,
                   progress_percentage, error_message, end_time, scraped_urls,
                   sresults, retval, looploc, keyloc,
                   extracted, ckpt_at_start, rows_at_start, last_extract, recovered_at,
                   driver_error, nav_error, processed>>

\* The browser of the current handle stops answering.
Die ==
    /\ pc \in {"loop_head", "search", "scroll", "cand", "extract", "detail"}
    /\ browser.driver \in browser.live
    /\ Spend(1)
    /\ browser' = [browser EXCEPT !.live = browser.live \ {browser.driver}]
    /\ UNCHANGED <<params, side, file, pc, run, sess, looploc, keyloc, hist>>

\* The process is killed during a run; only the checkpoint file survives.
Crash ==
    /\ pc \notin {"idle", "done"}
    /\ run < MaxRuns
    /\ pc' = "idle"
    /\ browser' = NoBrowser
    /\ status' = "idle"
    /\ successful_names' = 0
    /\ failed_names' = 0
    /\ current_index' = 0
    /\ total_names' = 0
    /\ progress_percentage' = ZeroPct
    /\ error_message' = ""
    /\ end_time' = "none"
    /\ scraped_urls' = {}
    /\ sresults' = <<>>
    /\ stop_flag' = FALSE
    /\ retval' = "none"
    /\ start_index' = 0
    /\ i' = 0
    /\ all_data' = <<>>
    /\ profiles_scraped' = 0
    /\ KeyLocReset
    /\ extracted' = {}
    /\ ckpt_at_start' = {}
    /\ rows_at_start' = 0
    /\ stop_ever' = FALSE
    /\ stop_mark' = NoMark
    /\ last_extract' = "none"
    /\ recovered_at' = "none"
    /\ driver_error' = FALSE
    /\ nav_error' = FALSE
    /\ processed' = processed
    /\ UNCHANGED <<params, side, file, run, faults>>

JobStep ==
    \/ StartRun
    \/ Authenticate
    \/ Setup
    \/ LoopHead
    \/ SearchStart
    \/ ScrollStep
    \/ CandStep
    \/ ExtractCore
    \/ OpenTab
    \/ ExtractLegacy
    \/ KeyDone
    \/ Finalize

Next ==
    \/ JobStep
    \/ RequestStop
    \/ Die
    \/ Crash

Spec == Init /\ [][Next]_vars

\* The job on an input list with a repeated key.
InitResume ==
    /\ impl \in Impls
    /\ input = RepeatedKey.input
    /\ world = RepeatedKey.world
    /\ max_profiles \in 1..MaxTarget
    /\ resume_scraping = TRUE
    /\ probe = NoProbe
    /\ file = NoFile
    /\ pc = "idle"
    /\ faults = MaxFaults
    /\ Fresh

SpecResume == InitResume /\ [][Next]_vars

(***************************************************************************)
(* The resume point and the checkpoint append, called in isolation on      *)
(* drawn arguments.                                                        *)
(***************************************************************************)
RECURSIVE SeqsUpTo(_, _)
SeqsUpTo(S, n) ==
    IF n = 0 THEN {<<>>}
    ELSE LET shorter == SeqsUpTo(S, n - 1)
         IN  shorter \cup {Append(q, x) : q \in shorter, x \in S}

\* Rows an earlier run can have left in the checkpoint, and rows of a batch
\* (the rows of one batch have distinct URLs: the dedup set of the run).
CkptRows  == {Row(u, n, "ok", 1) : u \in {"u1", "u4"}, n \in {"A", "A ", "B", "X"}}
BatchRows == {Row(u, ProfileName(u), "ok", t) : u \in {"u1", "u4"}, t \in {1, 2}}
CkptFiles == {NoFile} \cup
             {[exists |-> TRUE, rows |-> q] : q \in SeqsUpTo(CkptRows, MaxCkptLen)}

InitPure ==
    /\ impl \in Impls
    /\ world = OneEach
    /\ max_profiles = 1
    /\ resume_scraping = TRUE
    /\ file \in CkptFiles
    /\ \/ /\ input \in SeqsUpTo(KeyNames, MaxInputLen) \ {<<>>}
          /\ \E r \in BOOLEAN :
               probe = [readOk |-> r, batch |-> <<>>, file0 |-> file, once |-> NoFile]
       \/ /\ input = <<"A">>
          /\ \E b \in SeqsUpTo(BatchRows, 2) \ {<<>>} :
               /\ Cardinality(UrlsOf(b)) = Len(b)
               /\ probe = [readOk |-> TRUE, batch |-> b, file0 |-> file, once |-> NoFile]
    /\ pc = "pure"
    /\ faults = 0
    /\ Fresh

\* _get_resume_point(input_file, output_file) / get_resume_point(...).
ComputeResume ==
    /\ pc = "pure"
    /\ probe.batch = <<>>
    /\ start_index' = ResumePoint(impl, input, file, probe.readOk)
    /\ pc' = "resumed"
    /\ UNCHANGED <<params, side, file, run, faults, browser, sess, i, all_data,
                   profiles_scraped, keyloc, hist>>

\* _save_to_csv(data, filename) / save_to_csv(data, filename) without fault.
SaveToCsv(im, f, data) ==
    IF im = "core" THEN CoreSaveToCsv(f, data, TRUE)
                   ELSE LegacySaveToCsv(f, data, TRUE, "ok")

\* The first append of the batch.
SaveOnce ==
    /\ pc = "pure"
    /\ probe.batch # <<>>
    /\ file' = SaveToCsv(impl, file, probe.batch)
    /\ probe' = [probe EXCEPT !.once = file']
    /\ pc' = "saved_once"
    /\ UNCHANGED <<side, impl, input, world, max_profiles, resume_scraping, run, faults,
                   browser, sess, looploc, keyloc, hist>>

\* The second append of the same batch.
SaveTwice ==
    /\ pc = "saved_once"
    /\ file' = SaveToCsv(impl, file, probe.batch)
    /\ pc' = "saved_twice"
    /\ UNCHANGED <<params, side, run, faults, browser, sess, looploc, keyloc, hist>>

NextPure ==
    \/ ComputeResume
    \/ SaveOnce
    \/ SaveTwice

SpecPure == InitPure /\ [][NextPure]_vars

(***************************************************************************)
(* The driver manager, one statement at a time: get_driver() and the       *)
(* recovery function are called on whatever the manager holds, and the     *)
(* browser may die between any two statements.                             *)
(***************************************************************************)
\* What a call gives back when the initialization failed (core raises
\* WebDriverException, main.recover_driver_session returns None).
DrvRaised == 0 - 1

InitDriver ==
    /\ impl \in Impls
    /\ input = <<"A">>
    /\ world = OneEach
    /\ max_profiles = 1
    /\ resume_scraping = TRUE
    /\ probe = NoProbe
    /\ file = NoFile
    /\ pc = "driver"
    /\ faults = 0
    /\ Fresh

\* The state of the job other than the browser.
rest == <<params, file, pc, run, faults, sess, looploc, keyloc, hist>>

\* The branch get_driver() takes on what the manager holds.
GetBranchNoReuse(im, b) ==
    IF b.driver = 0 \/ ~b.init THEN "init" ELSE "recover"

GetBranch(im, b) ==
    IF b.driver = 0 \/ ~b.init THEN "init"
    ELSE IF im = "core" THEN (IF ~IsDriverAlive(b) THEN "recover" ELSE "existing")
    ELSE (IF b.driver \in b.live THEN "existing" ELSE "drop")

\* What a liveness probe reads on the handle.  An attribute that raises ends
\* the probe, so the ones after it are not read.
\*   "is_alive":   LinkedInDriver._is_driver_alive reads window_handles;
\*                 main.is_driver_alive reads current_url, then title;
\*   "responsive": LinkedInDriver.is_browser_responsive reads window_handles,
\*                 then the window size.
ProbeReads(im, op, b) ==
    IF b.driver = 0 \/ ~b.init THEN {}
    ELSE IF im = "legacy"
         THEN (IF b.driver \in b.live THEN {"current_url", "title"} ELSE {"current_url"})
    ELSE IF op = "is_alive" THEN {"window_handles"}
    ELSE (IF b.driver \in b.live THEN {"window_handles", "window_size"}
                                 ELSE {"window_handles"})

\* What get_driver() reads to test the handle it holds: core calls
\* _is_driver_alive, main.get_driver reads driver.current_url.
GetReads(im, b) ==
    IF b.driver = 0 \/ ~b.init THEN {}
    ELSE IF im = "core" THEN ProbeReads(im, "is_alive", b)
    ELSE {"current_url"}

\* The handles _recover_session / recover_driver_session call quit() on.
QuitTargetNone(b) == {}

QuitTarget(b) == IF b.driver # 0 THEN {b.driver} ELSE {}

\* try: if driver: driver.quit() / except: pass.  quit() ends the browser of
\* the handle if it still ran; on a dead handle it raises and nothing changes.
\* (QuitLeavesBrowser: a quit() that leaves the browser of the handle running.)
QuitLeavesBrowser(b) == b

Quit(b) == [b EXCEPT !.live = b.live \ QuitTarget(b)]

\* finally: driver = None; driver_initialized = False.
\* (CleanupResetSkipped: cleanup() without its finally clause.)
CleanupResetSkipped(b) == b

CleanupReset(b) == [b EXCEPT !.driver = 0, !.init = FALSE]

\* get_driver() up to the statement its branch begins with.
DrvGet ==
    /\ pc = "driver"
    /\ dpc = "idle"
    /\ LET br == GetBranch(impl, browser) IN
         /\ dcall' = [op |-> "get", branch |-> br, before |-> browser]
         /\ dquit' = {}
         /\ dreads' = GetReads(impl, browser)
         /\ dpc' = CASE br = "init"     -> "init"
                     [] br = "recover"  -> "quit"
                     [] br = "drop"     -> "reset"
                     [] br = "existing" -> "idle"
         /\ dret' = IF br = "existing" THEN browser.driver ELSE dret
    /\ UNCHANGED <<job, aux, api>>

\* _recover_session() / recover_driver_session() called on their own.
DrvRecover ==
    /\ pc = "driver"
    /\ dpc = "idle"
    /\ dcall' = [op |-> "recover", branch |-> "recover", before |-> browser]
    /\ dquit' = {}
    /\ dreads' = {}
    /\ dpc' = "quit"
    /\ UNCHANGED <<job, aux, api, dret>>

\* The quit() of the recovery.
DrvQuit ==
    /\ pc = "driver"
    /\ dpc = "quit"
    /\ dquit' = dquit \cup QuitTarget(browser)
    /\ browser' = Quit(browser)
    /\ dpc' = "reset"
    /\ UNCHANGED <<rest, aux, api, dcall, dret, dreads>>

\* driver = None; driver_initialized = False.
DrvReset ==
    /\ pc = "driver"
    /\ dpc = "reset"
    /\ browser' = [browser EXCEPT !.driver = 0, !.init = FALSE]
    /\ dpc' = "init"
    /\ UNCHANGED <<rest, aux, api, dcall, dret, dquit, dreads>>

\* _initialize_driver() / start_driver(): a new handle, or a failure that
\* leaves the manager as it was.  Inside close_extra_tabs() the outcome is
\* not the outcome of the call: cleanup() goes on to its quit().
DrvInit ==
    /\ pc = "driver"
    /\ dpc = "init"
    /\ \E ok \in BOOLEAN :
         /\ ok => browser.n < MaxHandles
         /\ LET o == InitializeDriver(browser, ok) IN
              /\ browser' = o.b
              /\ dret' = IF dcall.op = "cleanup" THEN dret
                         ELSE IF o.raised THEN DrvRaised ELSE o.b.driver
    /\ dpc' = IF dcall.op = "cleanup" THEN "c_quit" ELSE "idle"
    /\ UNCHANGED <<rest, aux, api, dcall, dquit, dreads>>

\* A liveness probe called on its own: _is_driver_alive / is_driver_alive,
\* or is_browser_responsive (core).
DrvProbe ==
    /\ pc = "driver"
    /\ dpc = "idle"
    /\ \E op \in {"is_alive", "responsive"} :
         /\ op = "responsive" => impl = "core"
         /\ dcall' = [op |-> op,
                      branch |-> IF IsDriverAlive(browser) THEN "alive" ELSE "dead",
                      before |-> browser]
         /\ dreads' = ProbeReads(impl, op, browser)
    /\ dquit' = {}
    /\ UNCHANGED <<job, aux, api, dpc, dret>>

\* cleanup() / cleanup_driver(): "if driver:" leads to the tabs, anything
\* else to the finally clause.
DrvCleanup ==
    /\ pc = "driver"
    /\ dpc = "idle"
    /\ dcall' = [op |-> "cleanup", branch |-> "cleanup", before |-> browser]
    /\ dquit' = {}
    /\ dreads' = {}
    /\ dpc' = IF browser.driver # 0 THEN "c_tabs" ELSE "c_finally"
    /\ UNCHANGED <<job, aux, api, dret>>

\* The extra tabs are closed.  core: close_extra_tabs() takes the handle
\* from get_driver(), which replaces a dead handle first, and swallows every
\* exception, that of a failed initialization included.  legacy:
\* len(driver.window_handles) raises on a dead handle and the except clause of
\* cleanup_driver is entered.
DrvCloseTabs ==
    /\ pc = "driver"
    /\ dpc = "c_tabs"
    /\ dpc' = IF impl = "core"
              THEN CASE GetBranch(impl, browser) = "existing" -> "c_quit"
                     [] GetBranch(impl, browser) = "recover"  -> "quit"
                     [] OTHER                                 -> "init"
              ELSE IF browser.driver \in browser.live THEN "c_quit" ELSE "c_finally"
    /\ dreads' = IF impl = "core" THEN GetReads(impl, browser) ELSE {"window_handles"}
    /\ UNCHANGED <<job, aux, api, dcall, dret, dquit>>

\* driver.quit() inside the try of cleanup: on None (core, after a failed
\* replacement) or on a dead handle it raises into the except clause.
DrvCleanupQuit ==
    /\ pc = "driver"
    /\ dpc = "c_quit"
    /\ dquit' = dquit \cup QuitTarget(browser)
    /\ browser' = Quit(browser)
    /\ dpc' = "c_finally"
    /\ UNCHANGED <<rest, aux, api, dcall, dret, dreads>>

\* The finally clause of cleanup; the call returns None.
DrvCleanupFinally ==
    /\ pc = "driver"
    /\ dpc = "c_finally"
    /\ browser' = CleanupReset(browser)
    /\ dpc' = "idle"
    /\ dret' = 0
    /\ UNCHANGED <<rest, aux, api, dcall, dquit, dreads>>

\* The browser of the current handle stops answering.
DrvDie ==
    /\ pc = "driver"
    /\ browser.driver \in browser.live
    /\ browser' = [browser EXCEPT !.live = browser.live \ {browser.driver}]
    /\ UNCHANGED <<rest, aux, api, drv>>

NextDriver ==
    \/ DrvGet
    \/ DrvRecover
    \/ DrvQuit
    \/ DrvReset
    \/ DrvInit
    \/ DrvProbe
    \/ DrvCleanup
    \/ DrvCloseTabs
    \/ DrvCleanupQuit
    \/ DrvCleanupFinally
    \/ DrvDie

SpecDriver == InitDriver /\ [][NextDriver]_vars

(***************************************************************************)
(* The job runner of the API service (api_service.py).  The web            *)
(* application serves each request on a thread of its own, so the          *)
(* statements of two requests and of the job threads interleave.           *)
(***************************************************************************)
InitApi ==
    /\ impl = "core"
    /\ input = <<"A">>
    /\ world = OneEach
    /\ max_profiles \in {1, MaxApiProfiles}
    /\ resume_scraping = TRUE
    /\ probe = NoProbe
    /\ file = NoFile
    /\ pc = "api"
    /\ faults = 0
    /\ Fresh

\* The job threads that are alive.
AliveThreads == {t \in 1..Len(threads) : threads[t].pc # "dead"}

SetCaller(c, op, p) == callers' = [callers EXCEPT ![c] = [op |-> op, pc |-> p]]

\* The data get_scraping_status() replies with.
GetScrapingStatus ==
    IF ~scraping_active
    THEN [is_running |-> FALSE, message |-> "No active scraping process",
          current_index |-> 0, total_profiles |-> 0, completion_percentage |-> 0]
    ELSE IF current_session = "none"
    THEN [is_running |-> TRUE, message |-> "Scraping initializing...",
          current_index |-> 0, total_profiles |-> 0, completion_percentage |-> 0]
    ELSE [is_running |-> TRUE, message |-> "Scraping in progress",
          current_index |-> 0, total_profiles |-> PlaceholderTotal,
          completion_percentage |-> 0]

\* LinkedInAuth.is_logged_in: navigate_to(feed), which takes the handle from
\* get_driver() (replacing a dead one) and loads the page; the answer is
\* read off the page that came.  nav: the handle was navigated.
\*   ok: a handle that get_driver() has to create is created;
\*   logged: the page that came is one of a logged-in user.
IsLoggedIn(b, ok, logged) ==
    LET o == CoreGetDriver(b, ok)
    IN  [b |-> o.b, nav |-> ~o.raised, result |-> ~o.raised /\ logged]

\* LinkedInDriver.cleanup as one call: the tabs are closed through
\* get_driver(), quit(), and the finally clause.
Cleanup(b, ok) ==
    IF b.driver = 0 THEN CleanupReset(b)
    ELSE CleanupReset(Quit(CoreGetDriver(b, ok).b))

\* What an operation of a request on the handle adds to ctl: it counts when
\* a job thread is alive.
Noted(what) == IF AliveThreads # {} THEN ctl \cup {what} ELSE ctl

\* A request arrives: start_scraping(), stop_scraping(), close_browser(),
\* get_scraping_status(), get_browser_status() or open_browser(); the last
\* three reply at once.
\*   get_browser_status: with a handle that answers, is_logged_in() is
\*     called, whatever the job does;
\*   open_browser: get_driver() when the manager holds no handle.
ApiCall(c) ==
    /\ pc = "api"
    /\ callers[c].pc = "idle"
    /\ \E op \in {"start", "stop", "close", "status", "browser_status", "open"},
          ok \in BOOLEAN :
         /\ op = "start" => Len(threads) < MaxJobs
         /\ (ok /\ op \in {"browser_status", "open"} /\ NeedsInit(browser))
                => browser.n < MaxApiHandles
         /\ (op \in {"browser_status", "open"} /\ NeedsInit(browser)) \/ ok
         /\ CASE op = "status" ->
                   /\ last_status' = GetScrapingStatus
                   /\ UNCHANGED <<callers, browser, ctl>>
              [] op = "browser_status" ->
                   /\ IF browser.driver # 0 /\ browser.driver \in browser.live
                      THEN LET r == IsLoggedIn(browser, ok, TRUE) IN
                             /\ browser' = r.b
                             /\ ctl' = IF r.nav THEN Noted("navigate") ELSE ctl
                      ELSE UNCHANGED <<browser, ctl>>
                   /\ UNCHANGED <<callers, last_status>>
              [] op = "open" ->
                   /\ browser' = IF browser.driver = 0
                                 THEN CoreGetDriver(browser, ok).b ELSE browser
                   /\ UNCHANGED <<callers, last_status, ctl>>
              [] OTHER ->
                   /\ SetCaller(c, op, "check")
                   /\ UNCHANGED <<last_status, browser, ctl>>
    /\ UNCHANGED <<rest, aux, drv, scraping_active, scraping_thread, current_session, threads>>

\* start_scraping: if self._scraping_active: return the rejection; if not
\* self.driver_manager.driver: return the rejection; if not
\* self.auth_manager.is_logged_in(): return the rejection.  A request that
\* has replied leaves its slot free.
StartCheck(c) ==
    /\ pc = "api"
    /\ callers[c] = [op |-> "start", pc |-> "check"]
    /\ IF scraping_active \/ browser.driver = 0
       THEN /\ SetCaller(c, "none", "idle")
            /\ UNCHANGED <<browser, ctl>>
       ELSE \E ok, logged \in BOOLEAN :
              /\ (ok /\ NeedsInit(browser)) => browser.n < MaxApiHandles
              /\ NeedsInit(browser) \/ ok
              /\ LET r == IsLoggedIn(browser, ok, logged) IN
                   /\ browser' = r.b
                   /\ ctl' = IF r.nav THEN Noted("navigate") ELSE ctl
                   /\ IF r.result THEN SetCaller(c, "start", "set")
                                  ELSE SetCaller(c, "none", "idle")
    /\ UNCHANGED <<rest, aux, drv, scraping_active, scraping_thread, current_session, threads,
                   last_status>>

\* start_scraping: self._scraping_active = True; the thread is created and
\* started.
StartSet(c) ==
    /\ pc = "api"
    /\ callers[c] = [op |-> "start", pc |-> "set"]
    /\ Len(threads) < MaxJobs
    /\ scraping_active' = TRUE
    /\ threads' = Append(threads, [pc |-> "loop", k |-> 0])
    /\ scraping_thread' = Len(threads) + 1
    /\ SetCaller(c, "none", "idle")
    /\ UNCHANGED <<job, aux, drv, current_session, last_status, ctl>>

\* close_browser: if self._scraping_active: self.stop_scraping(); then the
\* cleanup of the driver manager.
CloseCheck(c) ==
    /\ pc = "api"
    /\ callers[c] = [op |-> "close", pc |-> "check"]
    /\ IF scraping_active THEN SetCaller(c, "close", "stop")
                          ELSE SetCaller(c, "close", "cleanup")
    /\ UNCHANGED <<job, aux, drv, scraping_active, scraping_thread, current_session, threads,
                   last_status, ctl>>

\* Where a request is when stop_scraping() returns: stop_scraping() called by
\* close_browser() returns into it.
AfterStop(c) ==
    IF callers[c].op = "close" THEN SetCaller(c, "close", "cleanup")
                               ELSE SetCaller(c, "none", "idle")

\* stop_scraping: if not self._scraping_active: nothing to stop.
StopCheck(c) ==
    /\ pc = "api"
    /\ callers[c] \in {[op |-> "stop", pc |-> "check"], [op |-> "close", pc |-> "stop"]}
    /\ IF scraping_active THEN SetCaller(c, callers[c].op, "signal")
                          ELSE AfterStop(c)
    /\ UNCHANGED <<job, aux, drv, scraping_active, scraping_thread, current_session, threads,
                   last_status, ctl>>

\* stop_scraping: if self._current_session: try: signal_stop() except: pass.
\* ScrapingSession has no signal_stop, so with a session the call raises
\* AttributeError, which is swallowed; without one nothing is called.
StopSignal(c) ==
    /\ pc = "api"
    /\ callers[c].op \in {"stop", "close"}
    /\ callers[c].pc = "signal"
    /\ SetCaller(c, callers[c].op, "join")
    /\ UNCHANGED <<job, aux, drv, scraping_active, scraping_thread, current_session, threads,
                   last_status, ctl>>

\* Whether join(timeout=10) can return with the thread still alive: nothing
\* stop() has set so far ends the loop of the thread, and the sleeps it has
\* ahead of it can take longer than the timeout.
JoinTimesOut(t) ==
    /\ threads[t].pc = "loop"
    /\ (max_profiles - threads[t].k) * SleepSeconds > JoinTimeout

\* stop_scraping: if the thread is alive, join(timeout=10): returns when the
\* thread has ended or when the time is up.
StopJoin(c) ==
    /\ pc = "api"
    /\ callers[c].op \in {"stop", "close"}
    /\ callers[c].pc = "join"
    /\ \/ scraping_thread = 0
       \/ scraping_thread \notin AliveThreads
       \/ scraping_thread \in AliveThreads /\ JoinTimesOut(scraping_thread)
    /\ SetCaller(c, callers[c].op, "clear")
    /\ UNCHANGED <<job, aux, drv, scraping_active, scraping_thread, current_session, threads,
                   last_status, ctl>>

\* stop_scraping: the three fields are reset.
StopClear(c) ==
    /\ pc = "api"
    /\ callers[c].op \in {"stop", "close"}
    /\ callers[c].pc = "clear"
    /\ scraping_active' = FALSE
    /\ scraping_thread' = 0
    /\ current_session' = "none"
    /\ AfterStop(c)
    /\ UNCHANGED <<job, aux, drv, threads, last_status, ctl>>

\* close_browser: self.driver_manager.cleanup().
CloseCleanup(c) ==
    /\ pc = "api"
    /\ callers[c] = [op |-> "close", pc |-> "cleanup"]
    /\ \E ok \in BOOLEAN :
         /\ (ok /\ browser.driver # 0 /\ NeedsInit(browser)) => browser.n < MaxApiHandles
         /\ (browser.driver # 0 /\ NeedsInit(browser)) \/ ok
         /\ browser' = Cleanup(browser, ok)
    /\ ctl' = IF browser.driver # 0 THEN Noted("teardown") ELSE ctl
    /\ SetCaller(c, "none", "idle")
    /\ UNCHANGED <<rest, aux, drv, scraping_active, scraping_thread, current_session, threads,
                   last_status>>

\* _run_scraping_thread: one turn of for i in range(max_profiles): if not
\* self._scraping_active: break; time.sleep(2).  The sleep touches nothing
\* shared, so the turn is one step taken at its reading of the flag.  k is
\* the loop variable i, which nothing reads once the loop is left.
ThreadLoop(t) ==
    /\ pc = "api"
    /\ t \in DOMAIN threads
    /\ threads[t].pc = "loop"
    /\ threads' = [threads EXCEPT ![t] =
                     IF threads[t].k < max_profiles /\ scraping_active
                     THEN [pc |-> "loop", k |-> threads[t].k + 1]
                     ELSE [pc |-> "mark", k |-> 0]]
    /\ UNCHANGED <<job, aux, drv, scraping_active, scraping_thread, current_session, callers,
                   last_status, ctl>>

\* _run_scraping_thread: self._scraping_active = False after the loop.
ThreadMark(t) ==
    /\ pc = "api"
    /\ t \in DOMAIN threads
    /\ threads[t].pc = "mark"
    /\ scraping_active' = FALSE
    /\ threads' = [threads EXCEPT ![t].pc = "finally"]
    /\ UNCHANGED <<job, aux, drv, scraping_thread, current_session, callers, last_status, ctl>>

\* _run_scraping_thread: finally: self._current_session = None; the thread ends.
ThreadFinally(t) ==
    /\ pc = "api"
    /\ t \in DOMAIN threads
    /\ threads[t].pc = "finally"
    /\ current_session' = "none"
    /\ threads' = [threads EXCEPT ![t].pc = "dead"]
    /\ UNCHANGED <<job, aux, drv, scraping_active, scraping_thread, callers, last_status, ctl>>

\* The browser of the handle stops answering (its window is closed by hand).
ApiDie ==
    /\ pc = "api"
    /\ browser.driver \in browser.live
    /\ browser' = [browser EXCEPT !.live = browser.live \ {browser.driver}]
    /\ UNCHANGED <<rest, aux, drv, api>>

NextApi ==
    \/ \E c \in 1..MaxCallers :
         \/ ApiCall(c)
         \/ StartCheck(c)
         \/ StartSet(c)
         \/ CloseCheck(c)
         \/ StopCheck(c)
         \/ StopSignal(c)
         \/ StopJoin(c)
         \/ StopClear(c)
         \/ CloseCleanup(c)
    \/ \E t \in 1..MaxJobs :
         \/ ThreadLoop(t)
         \/ ThreadMark(t)
         \/ ThreadFinally(t)
    \/ ApiDie

SpecApi == InitApi /\ [][NextApi]_vars

(***************************************************************************)
(* main.safe_driver_operation, one statement at a time, on whatever the    *)
(* module holds as its handle; the browser may die between any two         *)
(* statements.  sdo is the call in progress: the loop index attempt, the   *)
(* argument max_retries, how often the operation ran, how many attempts    *)
(* failed, and what the call returned ("none": nothing yet, "None",        *)
(* "value": the result of the operation).                                  *)
(***************************************************************************)
InitRetry ==
    /\ impl = "legacy"
    /\ input = <<"A">>
    /\ world = OneEach
    /\ max_profiles = 1
    /\ resume_scraping = TRUE
    /\ probe = NoProbe
    /\ file = NoFile
    /\ pc = "retry"
    /\ faults = 0
    /\ Fresh

\* for attempt in range(max_retries + 1): the number of attempts.
\* (AttemptsOneMore: a loop that goes round once more.)
AttemptsOneMore(max) == max + 2

Attempts(max) == max + 1

\* safe_driver_operation(operation_func, max_retries=...) is called.
SdoCall ==
    /\ pc = "retry"
    /\ sdo.pc = "idle"
    /\ \E m \in 0..MaxRetries :
         sdo' = [pc |-> "check", attempt |-> 0, max_retries |-> m, runs |-> 0,
                 failed |-> 0, ret |-> "none"]
    /\ UNCHANGED <<job, drv, api, lock, sthreads, calls, sessions, clock>>

\* The head of the for loop and "if not is_driver_alive()": the loop is over
\* (return None), the handle answers (the operation is next) or it does not
\* (recover_driver_session is next).
SdoCheck ==
    /\ pc = "retry"
    /\ sdo.pc = "check"
    /\ sdo' = IF sdo.attempt >= Attempts(sdo.max_retries)
              THEN [sdo EXCEPT !.pc = "idle", !.ret = "None"]
              ELSE IF IsDriverAlive(browser) THEN [sdo EXCEPT !.pc = "op"]
              ELSE [sdo EXCEPT !.pc = "recover_pre"]
    /\ UNCHANGED <<job, drv, api, lock, sthreads, calls, sessions, clock>>

\* driver = recover_driver_session() before the attempt; "if not driver:
\* continue" gives the attempt up without running the operation.
SdoRecoverPre ==
    /\ pc = "retry"
    /\ sdo.pc = "recover_pre"
    /\ \E ok \in BOOLEAN :
         /\ ok => browser.n < MaxHandles
         /\ LET o == RecoverSession(browser, ok) IN
              /\ browser' = o.b
              /\ sdo' = IF o.raised
                        THEN [sdo EXCEPT !.pc = "check", !.attempt = sdo.attempt + 1,
                                         !.failed = sdo.failed + 1]
                        ELSE [sdo EXCEPT !.pc = "op"]
    /\ UNCHANGED <<rest, drv, api, lock, sthreads, calls, sessions, clock>>

\* return operation_func(*args, **kwargs), and the except clause when it
\* raises: a retry is left (recover_driver_session is next) or not (return
\* None).  An operation on a handle that no longer answers raises.
SdoOp ==
    /\ pc = "retry"
    /\ sdo.pc = "op"
    /\ \E ok \in BOOLEAN :
         /\ ok => browser.driver \in browser.live
         /\ sdo' = IF ok
                   THEN [sdo EXCEPT !.pc = "idle", !.runs = sdo.runs + 1, !.ret = "value"]
                   ELSE IF sdo.attempt < sdo.max_retries
                   THEN [sdo EXCEPT !.pc = "recover_post", !.runs = sdo.runs + 1,
                                    !.failed = sdo.failed + 1]
                   ELSE [sdo EXCEPT !.pc = "idle", !.runs = sdo.runs + 1,
                                    !.failed = sdo.failed + 1, !.ret = "None"]
    /\ UNCHANGED <<job, drv, api, lock, sthreads, calls, sessions, clock>>

\* driver = recover_driver_session() in the except clause; whether it gives
\* a handle or None, the next attempt follows.
SdoRecoverPost ==
    /\ pc = "retry"
    /\ sdo.pc = "recover_post"
    /\ \E ok \in BOOLEAN :
         /\ ok => browser.n < MaxHandles
         /\ browser' = RecoverSession(browser, ok).b
    /\ sdo' = [sdo EXCEPT !.pc = "check", !.attempt = sdo.attempt + 1]
    /\ UNCHANGED <<rest, drv, api, lock, sthreads, calls, sessions, clock>>

\* The browser of the handle stops answering.
SdoDie ==
    /\ pc = "retry"
    /\ browser.driver \in browser.live
    /\ browser' = [browser EXCEPT !.live = browser.live \ {browser.driver}]
    /\ UNCHANGED <<rest, side>>

NextRetry ==
    \/ SdoCall
    \/ SdoCheck
    \/ SdoRecoverPre
    \/ SdoOp
    \/ SdoRecoverPost
    \/ SdoDie

SpecRetry == InitRetry /\ [][NextRetry]_vars

(***************************************************************************)
(* core/session.py on its own.  A ScrapingSession is called by the job     *)
(* thread and by a caller thread, each method one statement at a time:     *)
(* the lock is taken, a counter is read, the fields are written, the lock  *)
(* is released.  The SessionManager registers sessions under the ids it    *)
(* makes from the clock.                                                   *)
(***************************************************************************)
\* The names the session is started with.
SessionNames == <<"A", "B">>

InitSession ==
    /\ impl = "core"
    /\ input = <<"A">>
    /\ world = OneEach
    /\ max_profiles = 1
    /\ resume_scraping = TRUE
    /\ probe = NoProbe
    /\ file = NoFile
    /\ pc = "session"
    /\ faults = 0
    /\ Fresh

SessOps == {"start_session", "update_progress", "add_successful_name",
            "add_failed_name", "stop_session"}

\* The methods whose body is "counter += 1".
Increments == {"add_successful_name", "add_failed_name"}

\* What the calls leave alone: everything but the session and its threads.
sessless == <<params, file, pc, run, faults, browser, looploc, keyloc, hist,
              drv, api, sdo, sessions, clock>>

\* "with self._lock:" is entered only when no thread holds the lock.
\* (LockFreeAlways: a lock that lets every thread in.)
LockFreeAlways(l) == TRUE

LockFree(l) == l = "free"

SetThread(t, r) == sthreads' = [sthreads EXCEPT ![t] = r]

\* A thread calls a method of the session.  stop_session sets the stop flag
\* before it takes the lock.
\*   a: the index given to update_progress.
SessBegin(t) ==
    /\ pc = "session"
    /\ sthreads[t].pc = "idle"
    /\ calls.begun < MaxCalls
    /\ \E op \in SessOps, a \in 0..1 :
         /\ a # 0 => op = "update_progress"
         /\ SetThread(t, [op |-> op, pc |-> "acquire", tmp |-> 0, arg |-> a])
         /\ stop_flag' = IF op = "stop_session" THEN TRUE ELSE stop_flag
    /\ calls' = [calls EXCEPT !.begun = calls.begun + 1]
    /\ UNCHANGED <<sessless, lock, status, successful_names, failed_names, current_index,
                   total_names, progress_percentage, error_message, end_time,
                   scraped_urls, sresults, retval>>

\* with self._lock: the thread takes the lock.
SessAcquire(t) ==
    /\ pc = "session"
    /\ sthreads[t].pc = "acquire"
    /\ LockFree(lock)
    /\ lock' = t
    /\ SetThread(t, [sthreads[t] EXCEPT
                       !.pc = IF sthreads[t].op \in Increments THEN "read" ELSE "write"])
    /\ UNCHANGED <<sessless, sess, calls>>

\* The read of "self.progress.<counter> += 1".
SessRead(t) ==
    /\ pc = "session"
    /\ sthreads[t].pc = "read"
    /\ SetThread(t, [sthreads[t] EXCEPT
                       !.pc = "write",
                       !.tmp = IF sthreads[t].op = "add_successful_name"
                               THEN successful_names ELSE failed_names])
    /\ UNCHANGED <<sessless, sess, lock, calls>>

\* The assignments of the method.
SessWrite(t) ==
    /\ pc = "session"
    /\ sthreads[t].pc = "write"
    /\ LET op == sthreads[t].op IN
         /\ successful_names' =
              CASE op = "add_successful_name" -> sthreads[t].tmp + 1
                [] op = "start_session"       -> 0
                [] OTHER                      -> successful_names
         /\ failed_names' =
              CASE op = "add_failed_name" -> sthreads[t].tmp + 1
                [] op = "start_session"   -> 0
                [] OTHER                  -> failed_names
         /\ calls' =
              CASE op = "add_successful_name" -> [calls EXCEPT !.success = calls.success + 1]
                [] op = "add_failed_name"     -> [calls EXCEPT !.failure = calls.failure + 1]
                [] op = "start_session"       -> [calls EXCEPT !.success = 0, !.failure = 0]
                [] OTHER                      -> calls
         /\ current_index' =
              CASE op = "update_progress" -> sthreads[t].arg
                [] op = "start_session"   -> 0
                [] OTHER                  -> current_index
         /\ progress_percentage' =
              CASE op = "update_progress" ->
                     UpdateProgress(progress_percentage, sthreads[t].arg, total_names)
                [] op = "start_session"   -> ZeroPct
                [] OTHER                  -> progress_percentage
         /\ total_names' = IF op = "start_session" THEN Len(SessionNames) ELSE total_names
         /\ status' =
              CASE op = "start_session" -> "running"
                [] op = "stop_session"  -> StopSession(status)
                [] OTHER                -> status
         /\ stop_flag' = IF op = "start_session" THEN FALSE ELSE stop_flag
    /\ SetThread(t, [sthreads[t] EXCEPT !.pc = "release"])
    /\ UNCHANGED <<sessless, lock, error_message, end_time, scraped_urls, sresults, retval>>

\* The end of the with block: the lock is released and the call returns.
SessRelease(t) ==
    /\ pc = "session"
    /\ sthreads[t].pc = "release"
    /\ lock' = "free"
    /\ SetThread(t, ThreadIdle)
    /\ UNCHANGED <<sessless, sess, calls>>

\* f"session_{datetime.now().strftime('%Y%m%d_%H%M%S')}": the time of the
\* call to the second.
SessionId(now) == <<"session", now \div TicksPerSecond>>

\* The ids a caller gives explicitly.
GivenIds == {<<"name", 0>>}

\* self._sessions[session_id] = session
Register(reg, id, session) ==
    [k \in DOMAIN reg \cup {id} |-> IF k = id THEN session ELSE reg[k]]

\* SessionManager.get_session: self._sessions.get(session_id), 0 is None.
GetSession(reg, id) == IF id \in DOMAIN reg THEN reg[id] ELSE 0

\* SessionManager.create_session(session_id): given is the id of the caller,
\* NoId when there is none.
CreateSession ==
    /\ pc = "session"
    /\ sessions.n < MaxSessions
    /\ \E given \in GivenIds \cup {NoId} :
         LET id == IF given = NoId THEN SessionId(clock) ELSE given IN
           sessions' = [reg  |-> Register(sessions.reg, id, sessions.n + 1),
                        n    |-> sessions.n + 1,
                        last |-> [id |-> id, given |-> given # NoId]]
    /\ UNCHANGED <<job, drv, api, sdo, lock, sthreads, calls, clock>>

\* Time passes.
Tick ==
    /\ pc = "session"
    /\ clock < MaxClock
    /\ clock' = clock + 1
    /\ UNCHANGED <<job, drv, api, sdo, lock, sthreads, calls, sessions>>

NextSession ==
    \/ \E t \in SessThreads : SessBegin(t)
    \/ \E t \in SessThreads : SessAcquire(t)
    \/ \E t \in SessThreads : SessRead(t)
    \/ \E t \in SessThreads : SessWrite(t)
    \/ \E t \in SessThreads : SessRelease(t)
    \/ CreateSession
    \/ Tick

SpecSession == InitSession /\ [][NextSession]_vars

(***************************************************************************)
(* Properties.                                                             *)
(***************************************************************************)
LastName(f) == f.rows[Len(f.rows)].name
NothingToResume(f) == ~f.exists \/ f.rows = <<>>

\* C1 as stated: the resume point is 0 when the checkpoint is missing or
\* empty or the Name of its last row does not occur in the input list;
\* otherwise it is the position after an occurrence of that Name.  (Stated
\* for a checkpoint that can be read.)
C1_AsStated ==
    (pc = "resumed" /\ probe.readOk) =>
        IF NothingToResume(file) \/ LastName(file) \notin Range(input)
        THEN start_index = 0
        ELSE /\ start_index \in 1..Len(input)
             /\ input[start_index] = LastName(file)

\* C1 amended: the resume point is 0 when the checkpoint is missing,
\* unreadable or empty, or when the Name of its last row does not occur in
\* the input list; otherwise it is the position after an occurrence of it:
\* the last occurrence in core (Names compared as they are), the first
\* occurrence in legacy, which compares Names with the surrounding
\* whitespace stripped.
C1_ResumePoint ==
    pc = "resumed" =>
        LET same(a, b) == IF impl = "core" THEN a = b ELSE Strip(a) = Strip(b)
            occurs == \E j \in 1..Len(input) : same(input[j], LastName(file))
        IN  IF NothingToResume(file) \/ ~probe.readOk \/ ~occurs
            THEN start_index = 0
            ELSE /\ start_index \in 1..Len(input)
                 /\ same(input[start_index], LastName(file))
                 /\ impl = "core" =>
                      \A j \in (start_index + 1)..Len(input) :
                          ~same(input[j], LastName(file))
                 /\ impl = "legacy" =>
                      \A j \in 1..(start_index - 1) :
                          ~same(input[j], LastName(file))

\* A resume point after the second of two occurrences of the last Name.
C1_Witness ==
    /\ pc = "resumed"
    /\ start_index = 2
    /\ input[1] = input[2]
    /\ LastName(file) = input[2]

\* C2: with resume enabled, a URL that was in the checkpoint when the run
\* started is not given to the Extractor again and no row of it is written
\* by the run.
C2_AsStated ==
    resume_scraping =>
        /\ extracted \cap ckpt_at_start = {}
        /\ \A j \in 1..Len(file.rows) :
             file.rows[j].at = run => file.rows[j].url \notin ckpt_at_start

\* C3: a URL that is in the checkpoint stays in it, whatever step is taken
\* (flush, write failure, read failure, stop, restart).
C3_AsStated ==
    [][UrlsOf(file.rows) \subseteq UrlsOf(file'.rows)]_vars

\* C4: no two rows of the checkpoint have the same URL.
C4_AsStated ==
    \A j, k \in 1..Len(file.rows) :
        j # k => file.rows[j].url # file.rows[k].url

\* C5: appending a batch adds a row only for a URL the checkpoint did not
\* hold and leaves, for every URL of the batch, the latest row of the
\* batch in the store; appending the same batch again changes nothing.
C5_AsStated ==
    /\ pc \in {"saved_once", "saved_twice"} =>
         /\ Len(probe.once.rows) = Len(probe.file0.rows)
              + Cardinality(UrlsOf(probe.batch) \ UrlsOf(probe.file0.rows))
         /\ \A j \in 1..Len(probe.batch) :
              (\A k \in (j + 1)..Len(probe.batch) : probe.batch[k].url # probe.batch[j].url)
                 => probe.batch[j] \in Range(probe.once.rows)
    /\ pc = "saved_twice" => file = probe.once

\* Steps of the job the properties speak about.
KeyStarts     == pc = "loop_head" /\ pc' = "search"
CandStarts    == pc = "cand" /\ pc' = "extract"
CandFinishes  == pc \in {"extract", "detail"} /\ pc' = "cand"
KeyFinishes   == pc = "key_done" /\ pc' = "loop_head"
CandRecorded(d) ==
    /\ alumni_list' = Append(alumni_list, Row(Cards[cidx], cand_name, d, run))
    /\ Cards[cidx] \in scraped_urls'
    /\ impl = "core" => sresults' = Append(sresults, Row(Cards[cidx], cand_name, d, run))

\* C6: while the stop flag is set no key and no candidate is started, and a
\* candidate in progress is finished and recorded in the dedup set and the
\* result buffer.
C6_AsStated ==
    [][stop_flag =>
          /\ ~KeyStarts
          /\ ~CandStarts
          /\ CandFinishes => \E d \in {"ok", "err"} : CandRecorded(d)]_vars

\* C7: a stop requested between two keys (at least one finished, the next
\* not started) ends the run with status "stopped" and with exactly the
\* rows collected before the stop added to the checkpoint.
C7_AsStated ==
    (/\ impl = "core"
     /\ pc = "done"
     /\ retval = "true"
     /\ stop_mark.pc = "loop_head"
     /\ stop_mark.i >= 1
     /\ stop_mark.i < Len(Keywords))
    => /\ status = "stopped"
       /\ SubSeq(file.rows, rows_at_start + 1, Len(file.rows)) = stop_mark.buf

\* C8: empty checkpoint, input [A, B, C], every key showing one profile of
\* its own, target t <= 3, no fault and no stop: the run ends with the rows
\* of the first t keys in the checkpoint, status "completed" (legacy:
\* run_scraper returns True), t successes and no failure.
C8_Scenario ==
    (/\ pc = "done"
     /\ run = 1
     /\ world = OneEach
     /\ input = <<"A", "B", "C">>
     /\ max_profiles <= Len(input)
     /\ faults = MaxFaults
     /\ ~stop_ever)
    => /\ Len(file.rows) = max_profiles
       /\ \A j \in 1..Len(file.rows) : file.rows[j].url = OneEach[input[j]][1]
       /\ impl = "core" => status = "completed"
       /\ retval = "true"
       /\ successful_names = max_profiles
       /\ failed_names = 0

\* The scenario of the spec: target 2 gives the rows of A and B.
C8_Witness ==
    /\ pc = "done"
    /\ run = 1
    /\ world = OneEach
    /\ input = <<"A", "B", "C">>
    /\ max_profiles = 2
    /\ faults = MaxFaults
    /\ ~stop_ever
    /\ impl = "core"
    /\ Len(file.rows) = 2
    /\ status = "completed"

\* C9: a candidate whose extraction failed is recorded with the
\* placeholders, and a key with at least one record is counted as a
\* success and not as a failure.
C9_AsStated ==
    [][/\ (CandFinishes /\ last_extract' = "err") => CandRecorded("err")
       /\ (KeyFinishes /\ alumni_list # <<>>) =>
             /\ successful_names' = successful_names + 1
             /\ failed_names' = failed_names]_vars

\* A handle was replaced by get_driver() in this step of the main loop.
Recovery == browser.n > 0 /\ browser'.n > browser.n
              /\ pc \in {"search", "scroll", "extract", "detail"}
IsPrefix(a, b) == Len(a) <= Len(b) /\ SubSeq(b, 1, Len(a)) = a
NoLoss ==
    /\ IsPrefix(alumni_list, alumni_list')
    /\ IsPrefix(sresults, sresults')
    /\ all_data' = all_data
    /\ file' = file
    /\ scraped_urls \subseteq scraped_urls'

\* C10: when a dead handle is replaced during the main loop, the
\* loop goes on with the same key on the new handle and nothing collected
\* is lost.
C10_AsStated ==
    [][Recovery => /\ NoLoss
                   /\ i' = i
                   /\ pc' \in {"scroll", "cand"}
                   /\ local_driver' = browser'.driver]_vars

\* A step of the search in which get_driver() raised.
DriverErrorStep ==
    pc = "search" /\ pc' \notin {"search", "idle"} /\ ~IsDriverAlive(browser')

\* C14 as stated: once get_driver() has raised during the main loop of a
\* run, no further key is started and the run ends with status "error" and
\* an error message.
C14_AsStated ==
    [][impl = "core" =>
          /\ driver_error => ~KeyStarts
          /\ (driver_error' /\ pc' = "done") =>
                (status' = "error" /\ error_message' # "")]_vars

\* C14 amended: a get_driver() that raises at the start of a key's search
\* is not fatal: the search yields no record and writes nothing, the key is
\* counted as failed and the loop goes on with the next key; the run of
\* core then ends with status "completed" and no error message.
C14_NotFatal ==
    [][/\ DriverErrorStep =>
             /\ alumni_list' = <<>>
             /\ file' = file
             /\ IF impl = "core"
                THEN pc' = "key_done" /\ failed_names' = failed_names
                ELSE /\ pc' = "loop_head"
                     /\ i' = i + 1
                     /\ failed_names' = failed_names + 1
       /\ (KeyFinishes /\ alumni_list = <<>>) =>
             /\ i' = i + 1
             /\ failed_names' >= failed_names + 1
       /\ (impl = "core" /\ driver_error' /\ pc' = "done") =>
             (status' = "completed" /\ error_message' = "")]_vars

\* A run of core that went on after a get_driver() failure: the key failed,
\* a later key was recorded and the run completed.
C14_Witness ==
    /\ impl = "core"
    /\ driver_error
    /\ pc = "done"
    /\ status = "completed"
    /\ failed_names = 1
    /\ successful_names = 1

\* C15: a run that ends before the main loop (authentication failed, no
\* name counted, input unreadable) has searched no key and written nothing,
\* and its session has status "error" and an error message.
C15_AsStated ==
    [][(pc \in {"auth", "setup"} /\ pc' = "done") =>
          /\ file' = file
          /\ extracted' = {}
          /\ impl = "core" => (status' = "error" /\ error_message' # "")]_vars

\* C16: the percentage of the snapshot is index / total * 100 rounded to two
\* decimals: in hundredths of a percent, the integer nearest to
\* current_index * 10000 / total_names.
C16_Percentage ==
    (impl = "core" /\ total_names > 0) =>
        LET p == GetProgressDict.progress_percentage
            d == p * total_names - current_index * 10000
        IN  /\ 2 * d <= total_names
            /\ 2 * (0 - d) <= total_names

\* The third of three keys is in progress: 2 / 3 * 100 is reported as 66.67.
C16_Witness ==
    /\ impl = "core"
    /\ pc = "search"
    /\ total_names = 3
    /\ current_index = 2
    /\ GetProgressDict.progress_percentage = 6667

C18_AsStated ==
    [][(stop_ever /\ run' = run) => (~CandStarts /\ ~KeyStarts)]_vars

\* A step of the driver manager that is a call of get_driver().
DrvGetStep == dpc = "idle" /\ dcall' # dcall /\ dcall'.op = "get"

\* A step that creates a handle.
DrvCreates == browser'.n > browser.n

\* C19: get() on a handle that exists, is initialized and is alive returns
\* that handle and creates none; a handle is only ever initialized on a manager
\* whose handle is absent or uninitialized.
C19_GetExisting ==
    [][/\ (DrvGetStep /\ IsDriverAlive(browser)) =>
              (browser' = browser /\ dret' = browser.driver /\ dpc' = "idle")
       /\ (DrvGetStep /\ dpc' = "init") => (browser.driver = 0 \/ ~browser.init)
       /\ DrvCreates => (browser.driver = 0 \/ ~browser.init)]_vars

\* C19 witness: get() has just returned the handle it found alive, and that
\* handle is the only one ever created.
C19_Witness ==
    /\ dcall.op = "get"
    /\ dcall.branch = "existing"
    /\ dpc = "idle"
    /\ dret = 1
    /\ browser.n = 1
    /\ IsDriverAlive(browser)

C11_AsStated == Cardinality(AliveThreads) <= 1

\* A step in which stop_scraping() passes the statement that signals the
\* session of the job.
StopSignalStep ==
    \E c \in 1..MaxCallers :
        callers[c] = [op |-> "stop", pc |-> "signal"] /\ callers'[c].pc = "join"

\* C12: stop() on an active job requests the stop of the job's session, so
\* the stop flag of the session is set when the signalling statement is passed.
C12_AsStated == [][StopSignalStep => (current_session # "none" /\ stop_flag')]_vars

\* C13: while a job is active, the reply of status() carries the snapshot of
\* the session: status, current index, counts, percentage and error message.
C13_AsStated ==
    last_status.is_running =>
        /\ {"status", "error_message", "successful_names", "failed_names"}
               \subseteq DOMAIN last_status
        /\ last_status.current_index = GetProgressDict.current_index
        /\ last_status.total_profiles = GetProgressDict.total_names

\* A step that is a liveness probe called on its own.
ProbeStep == dcall' # dcall /\ dcall'.op \in {"is_alive", "responsive"}

\* C21: a liveness probe changes nothing of the browser session and reads
\* nothing of the page: neither the current URL nor the title, only
\* properties of the windows.
C21_AsStated ==
    [][ProbeStep => /\ browser' = browser
                    /\ on_search' = on_search
                    /\ dreads' \subseteq {"window_handles", "window_size"}]_vars

\* C22: when cleanup() returns, the manager holds no handle and is
\* uninitialized, and the call has raised nothing; a cleanup() that starts on
\* such a manager changes nothing of the browser session.
C22_Cleanup ==
    [][/\ (dpc = "c_finally" /\ dpc' = "idle") =>
              /\ browser'.driver = 0
              /\ ~browser'.init
              /\ dret' # DrvRaised
       /\ (dcall'.op = "cleanup" /\ dcall'.before.driver = 0 /\ ~dcall'.before.init) =>
              browser' = browser]_vars

\* C22 witness: a cleanup() has returned that started on a manager already
\* without a handle, after a handle had been created and cleaned up.
C22_Witness ==
    /\ dcall.op = "cleanup"
    /\ dpc = "idle"
    /\ dcall.before.driver = 0
    /\ dcall.before.n >= 1
    /\ browser.driver = 0
    /\ ~browser.init

\* C23: after an initialization that failed, the manager holds no handle and
\* is uninitialized, and the next get() initializes again instead of
\* returning a handle.
C23_InitFailure ==
    [][/\ (dpc = "init" /\ dret' = DrvRaised) =>
              (browser'.driver = 0 /\ ~browser'.init)
       /\ (DrvGetStep /\ dret = DrvRaised) =>
              (dpc' = "init" /\ dcall'.branch = "init" /\ dret' = DrvRaised)]_vars

\* C23 witness: a get() is initializing again after the last call raised.
C23_Witness ==
    /\ dcall.op = "get"
    /\ dcall.branch = "init"
    /\ dpc = "init"
    /\ dret = DrvRaised
    /\ browser.driver = 0

C25_AsStated == ctl = {}

\* C27 as stated: every input position before the resume point of a run is
\* one whose search was started by an earlier run.
C27_AsStated ==
    (pc \in {"loop_head", "search", "key_done", "final"}) =>
        \A j \in 1..start_index : j \in processed

FinalFlushed == pc = "final" /\ pc' = "done" /\ (all_data = <<>> \/ file' # file)

\* C28 as stated: when the run ends, every record added to the result
\* buffer of the session during the run is in the checkpoint.
C28_AsStated ==
    [][(impl = "core" /\ FinalFlushed) =>
          UrlsOf(sresults) \subseteq UrlsOf(file'.rows)]_vars

\* A step that ends a key of the main loop.
KeyEnds == i' = i + 1

\* C29 as stated: at the end of every key after which a save is due (the
\* key is the third, sixth, ... of the run, or five rows are pending) the
\* pending rows are saved, and the buffer is empty afterwards.
C29_AsStated ==
    [][KeyEnds =>
          LET pending == all_data \o alumni_list
          IN  (FlushDue(i, pending) /\ pending # <<>>) => all_data' = <<>>]_vars

\* A search that could not load its results page has just ended.
LoadFailed == pc = "key_done" /\ local_driver = 0

\* C30: a search whose results page cannot be loaded yields no record and
\* writes nothing; the loop counts the key as failed (once in core), counts
\* no success and no profile for it, and goes on to the next key.
C30_KeyFailure ==
    [][/\ (pc = "search" /\ nav_error' /\ ~nav_error) =>
             /\ pc' = "key_done"
             /\ LoadFailed'
             /\ alumni_list' = <<>>
             /\ sresults' = sresults
             /\ file' = file
             /\ i' = i
       /\ (LoadFailed /\ KeyFinishes) =>
             /\ pc' = "loop_head"
             /\ i' = i + 1
             /\ failed_names' >= failed_names + 1
             /\ impl = "core" => failed_names' = failed_names + 1
             /\ successful_names' = successful_names
             /\ profiles_scraped' = profiles_scraped
             /\ sresults' = sresults]_vars

\* C30 witness: in core the page of the first key could not be loaded on a
\* handle that worked, the key was counted as failed and the search of the
\* second key has begun.
C30_Witness ==
    /\ impl = "core"
    /\ nav_error
    /\ ~driver_error
    /\ failed_names = 1
    /\ successful_names = 0
    /\ i = 1
    /\ pc = "search"

\* C40 as stated: no step of a cleanup() in progress initializes a handle or
\* enters the recovery, so the number of handles created stays as it was.
C40_AsStated ==
    [][(dcall.op = "cleanup" /\ dpc # "idle") =>
          (~DrvCreates /\ dpc' \notin {"quit", "reset", "init"})]_vars

\* C31 as stated: when a candidate is finished, whatever the outcome of its
\* extraction, the base window shows the results page of the key again.
C31_AsStated == [][CandFinishes => on_search']_vars

\* No URL occurs twice in a sequence of rows.
NoDup(rows) == \A j, k \in 1..Len(rows) : rows[j].url = rows[k].url => j = k

\* C32: in a session of core the extraction of a candidate starts only for
\* a URL that is not in the dedup set, a finished candidate is added to the
\* dedup set and to the result buffer in the same step, the dedup set holds
\* exactly the URLs of the result buffer, and no URL is in the buffer twice.
C32_NoDuplicate ==
    [][impl = "core" =>
          /\ CandStarts => Cards[cidx] \notin scraped_urls
          /\ CandFinishes =>
                /\ scraped_urls' = scraped_urls \cup {Cards[cidx]}
                /\ Len(sresults') = Len(sresults) + 1
                /\ sresults'[Len(sresults')].url = Cards[cidx]
          /\ UrlsOf(sresults') = scraped_urls'
          /\ NoDup(sresults')]_vars

\* C32 witness: in core a card whose URL an earlier key of the session had
\* recorded has been skipped, and the buffer holds two different URLs.
C32_Witness ==
    /\ impl = "core"
    /\ pc = "cand"
    /\ i >= 1
    /\ cidx >= 2
    /\ cidx - 1 <= Len(Cards)
    /\ Cards[cidx - 1] \in scraped_urls
    /\ \E j \in 1..Len(sresults) : sresults[j].url = Cards[cidx - 1]
    /\ \A r \in Range(alumni_list) : r.url # Cards[cidx - 1]
    /\ Len(sresults) >= 2


\* The records collected in the present run: those of the keys that ended
\* (legacy starts its count at the rows loaded from the checkpoint) and those
\* of the key in progress.
MainLoopPcs == {"loop_head", "search", "scroll", "cand", "extract", "detail",
                "key_done", "final"}

CollectedInRun ==
    profiles_scraped - (IF impl = "legacy" THEN rows_at_start ELSE 0)
      + Len(alumni_list)

\* C33: the records collected in one run never exceed the target: at every
\* point of the main loop the records of the keys that ended plus those of the
\* key in progress are at most max_profiles, no candidate is started and no
\* key is started once the target is reached.
C33_TargetBound ==
    [][/\ (pc \in MainLoopPcs /\ pc' \in MainLoopPcs) =>
             /\ CollectedInRun' <= max_profiles
             /\ impl = "core" => profiles_scraped' + Len(alumni_list') <= max_profiles
       /\ CandStarts => profiles_scraped + Len(alumni_list) < max_profiles
       /\ KeyStarts => profiles_scraped < max_profiles]_vars

\* C33 witness: keys remain and no stop was requested, yet the main loop ended
\* because the target was reached exactly.
C33_Witness ==
    /\ impl = "core" /\ pc = "final" /\ i >= 1 /\ i < Len(Keywords) /\ ~stop_flag
    /\ profiles_scraped = max_profiles

\* The position of the per-key loop and its order: pagination rounds first,
\* within a round the cards in turn, and the end of a round after its cards.
InKeyPcs == {"scroll", "cand", "extract", "detail"}

PcRank(p) == CASE p = "cand" -> 0 [] p = "extract" -> 1 [] p = "detail" -> 2
               [] OTHER -> 3

LoopMeasure(p, r, c) == <<r, IF p = "scroll" THEN 1 ELSE 0, c, PcRank(p)>>

LexLess(a, b) ==
    \E k \in 1..Len(a) : a[k] < b[k] /\ \A j \in 1..(k - 1) : a[j] = b[j]

\* C34: the per-key loop terminates.  Every step of the loop moves its
\* position strictly forward in an order bounded by the candidates of the key:
\* the rounds are at most one more than the records of the key, whose
\* identifiers are distinct candidates of the key, and the cards of a round are
\* finite.  A round that is followed by another pagination has recorded at
\* least one new identifier in the dedup set; the loop is left only after a
\* stop request, at the target, or after a pagination attempt that yielded no
\* new candidate.
C34_PerKeyLoop ==
    [][/\ (pc \in InKeyPcs /\ pc' \in InKeyPcs /\ <<pc, round, cidx>>' # <<pc, round, cidx>>)
             => LexLess(LoopMeasure(pc, round, cidx), LoopMeasure(pc', round', cidx'))
       /\ pc' \in InKeyPcs =>
             /\ round' <= Len(alumni_list') + 1
             /\ cidx' <= Len(Cards') + 1
             /\ NoDup(alumni_list')
             /\ UrlsOf(alumni_list') \subseteq Range(world[Keyword])
             /\ impl = "core" => UrlsOf(alumni_list') \subseteq scraped_urls'
       /\ (pc = "cand" /\ pc' = "scroll") =>
             /\ new_profile_found
             /\ Len(alumni_list) >= round
       /\ (pc = "cand" /\ pc' = "key_done") =>
             \/ stop_flag
             \/ profiles_scraped + Len(alumni_list) >= max_profiles
             \/ cidx > Len(Cards) /\ ~new_profile_found
       /\ (pc = "scroll" /\ pc' = "key_done") =>
             \/ stop_flag
             \/ profiles_scraped + Len(alumni_list) >= max_profiles
             \/ round' = round]_vars

\* C34 witness: a second pagination round of a key ended without a new
\* candidate, below the target and without a stop request, after the first
\* round had recorded one.
C34_Witness ==
    /\ pc = "key_done" /\ round = 2 /\ Len(alumni_list) = 1 /\ ~new_profile_found
    /\ ~stop_flag /\ profiles_scraped + Len(alumni_list) < max_profiles
    /\ cidx > Len(Cards)

\* C38 as stated: a stop requested at any time after the session of a run was
\* created is never lost: no key is started afterwards in that run.
C38_AsStated ==
    [][(stop_ever /\ run' = run /\ pc # "idle") => ~KeyStarts]_vars

\* C39: every key of a run of core is counted exactly once: the end of a key
\* adds one to successful_names when the key yielded a record and one to
\* failed_names when it yielded none, no other step of the main loop changes
\* either counter, and at each key boundary their sum is the number of keys
\* processed so far in the run.
C39_CountedOnce ==
    [][impl = "core" =>
          /\ KeyFinishes =>
                /\ successful_names' =
                     successful_names + (IF alumni_list # <<>> THEN 1 ELSE 0)
                /\ failed_names' =
                     failed_names + (IF alumni_list = <<>> THEN 1 ELSE 0)
          /\ (pc \in MainLoopPcs /\ pc' \in (MainLoopPcs \cup {"done"}) /\ ~KeyFinishes) =>
                /\ successful_names' = successful_names
                /\ failed_names' = failed_names
          /\ pc' \in {"loop_head", "final"} =>
                /\ successful_names' + failed_names' = i'
                /\ successful_names' <= Len(sresults')]_vars

\* C39 witness: a run of core at a key boundary after one key that yielded a
\* record and one that yielded none.
C39_Witness ==
    /\ impl = "core" /\ pc = "loop_head" /\ i = 2
    /\ successful_names = 1 /\ failed_names = 1
    /\ Len(sresults) >= 1

\* C36: safe_driver_operation is a bounded retry.  The operation runs at most
\* max_retries + 1 times in at most max_retries + 1 attempts; an attempt
\* starts the operation only on a handle that answers, a dead handle being
\* replaced first; an attempt that failed with a retry left is followed by a
\* recovery, after which the old handle no longer runs; the call returns the
\* result of the operation as soon as one attempt succeeds, every earlier
\* attempt having failed, and None once every attempt has failed.
C36_BoundedRetry ==
    [][/\ sdo'.runs <= sdo'.max_retries + 1
       /\ sdo'.pc \in {"op", "recover_pre", "recover_post"} =>
             sdo'.attempt <= sdo'.max_retries
       /\ (sdo.pc = "check" /\ sdo'.pc = "recover_pre") => ~IsDriverAlive(browser)
       /\ (sdo.pc # "op" /\ sdo'.pc = "op") => IsDriverAlive(browser')
       /\ (sdo.pc = "op" /\ sdo'.failed > sdo.failed /\ sdo.attempt < sdo.max_retries)
             => sdo'.pc = "recover_post"
       /\ (sdo.pc = "recover_post" /\ sdo' # sdo) =>
             /\ browser.driver \notin browser'.live
             /\ browser'.driver # 0 => (browser'.driver # browser.driver
                                        /\ IsDriverAlive(browser'))
       /\ (sdo.pc # "idle" /\ sdo'.pc = "idle") =>
             /\ sdo'.ret \in {"value", "None"}
             /\ sdo'.ret = "value" =>
                   (sdo.pc = "op" /\ sdo'.runs = sdo.runs + 1
                    /\ sdo'.failed = sdo'.attempt)
             /\ sdo'.ret = "None" => sdo'.failed = sdo'.max_retries + 1]_vars

\* C36 witness: a call returned the result of its third attempt: the first
\* found a dead handle that could not be replaced, the operation failed in the
\* second and succeeded in the third on a new handle.
C36_Witness ==
    /\ pc = "retry" /\ sdo.pc = "idle" /\ sdo.ret = "value"
    /\ sdo.max_retries = 2 /\ sdo.attempt = 2 /\ sdo.runs = 2 /\ sdo.failed = 2
    /\ browser.n >= 1

\* The threads inside "with self._lock:".
InLock == {t \in SessThreads : sthreads[t].pc \in {"read", "write", "release"}}

\* A step that is the assignment of a call of the method op.
WriteOf(op) ==
    \E t \in SessThreads :
        /\ sthreads[t].op = op
        /\ sthreads[t].pc = "write"
        /\ sthreads'[t].pc = "release"

\* The fields of ScrapingProgress other than the two counters.
OtherProgress == <<status, current_index, total_names, progress_percentage,
                   error_message, end_time, scraped_urls>>

\* C35: the mutations of the progress are atomic under the lock of the
\* session: at most one thread is inside the lock; add_successful_name and
\* add_failed_name each add exactly one to their own counter and change no
\* other field; however the two threads interleave, every increment made
\* since the session was started is in its counter and update_progress leaves
\* the index it was given.
C35_Atomic ==
    [][/\ Cardinality(InLock') <= 1
       /\ WriteOf("add_successful_name") =>
             /\ successful_names' = successful_names + 1
             /\ failed_names' = failed_names
             /\ OtherProgress' = OtherProgress
       /\ WriteOf("add_failed_name") =>
             /\ failed_names' = failed_names + 1
             /\ successful_names' = successful_names
             /\ OtherProgress' = OtherProgress
       /\ WriteOf("update_progress") =>
             \E t \in SessThreads : sthreads[t].pc = "write"
                                     /\ current_index' = sthreads[t].arg
       /\ successful_names' = calls'.success
       /\ failed_names' = calls'.failure]_vars

\* C35 witness: one increment of successful_names is done, a second call of
\* add_successful_name is inside the lock about to write, and the other
\* thread waits for the lock with a third.
C35_Witness ==
    /\ pc = "session" /\ successful_names = 1
    /\ \E t, u \in SessThreads :
         /\ sthreads[t] = [op |-> "add_successful_name", pc |-> "acquire",
                           tmp |-> 0, arg |-> 0]
         /\ sthreads[u] = [op |-> "add_successful_name", pc |-> "write",
                           tmp |-> 1, arg |-> 0]
         /\ lock = u

\* C37 as stated: a create_session() without an explicit id registers the
\* new session under an id that was not in the registry, and every session
\* registered before is still returned by get_session() for its id.
C37_AsStated ==
    [][(sessions'.n = sessions.n + 1 /\ ~sessions'.last.given) =>
          /\ sessions'.last.id \notin DOMAIN sessions.reg
          /\ \A k \in DOMAIN sessions.reg :
                GetSession(sessions'.reg, k) = sessions.reg[k]]_vars
====
